---------------------------- MODULE Spec2Model ----------------------------
(***************************************************************************)
(* Pulse AI / Threader AI synthesis engine.                                *)
(*                                                                         *)
(*   src/src/analysis/synthesizer.js  impact scorer, signal filter,        *)
(*                                    focus-area clusterer                 *)
(*   src/unnamed/part_007             differential analysis engine         *)
(*                                                                         *)
(* Optional JavaScript values (undefined / null / absent property) are     *)
(* sequences of length 0 or 1: <<>> is absent, <<v>> is the value v.       *)
(* Impact scores are kept in tenths (score 9.7 is 97) and computed with    *)
(* exact integer arithmetic.  The signal score, whose threshold test       *)
(* depends on the binary rounding of 0.1 and 0.2, is computed in IEEE-754  *)
(* double arithmetic (see "doubles" below).                                *)
(***************************************************************************)
EXTENDS Integers, Sequences, FiniteSets, TLC

VARIABLES
    \* ---- one item through the scorer (SpecItem)
    item,           \* the analysed item handed to the scorer
    impactData,     \* <<>> or <<result of calculateImpactScore(item)>>
    signalScore,    \* <<>> or <<result of calculateSignalScore(item)>>
    \* ---- a list of items through filter and clusterer (SpecFilter)
    analyzedItems,  \* input of synthesizeFeedback
    signalData,     \* <<>> or <<[highSignal, noise]>>
    focusAreas,     \* <<>> or <<sequence of focus areas>>
    synthesis,      \* <<>> or <<how the narrative call settled>>
    report,         \* <<>> or <<what synthesizeFeedback returned or threw>>
    \* ---- the differential engine (SpecCompare)
    current,        \* current synthesis: [focusAreas, sentiment]
    previous,       \* <<>> (no snapshot) or <<[focusAreas, sentiment]>>
    comparison,     \* <<>> or <<result of compareSyntheses(current, previous)>>
    whatsNew,       \* <<>> or <<how getWhatsNew(comparison) ended>>
    whatsImproved,  \* <<>> or <<how getWhatsImproved(comparison) ended>>
    attached,       \* <<>> or <<how attachTrendData(focusAreas, comparison) ended>>
    trendTags,      \* <<>> or <<trend and trendDelta synthesizeFeedback attaches>>
    runSnapshot,    \* <<>> or <<result of createSnapshot(current)>>
    \* ---- the health score alone (SpecHealth)
    healthIn,       \* [sentimentTrend, changes] handed to calculateHealthScore
    healthOut,      \* <<>> or <<its result>>
    \* ---- the batch classifier (SpecClassify)
    feedbackItems,  \* the scraped mentions handed to classifyFeedbackBatch
    chainAnswers,   \* how classificationChain.invoke settles, one per mention
    batchResults,   \* <<>> or <<how classifyFeedbackBatch ended>>
    \* ---- runPipeline and scout (SpecPipeline)
    command,        \* "runPipeline" or "scout"
    options,        \* [skipClassification, skipStorage, supabaseAdmin]
    pc,             \* the step the run is about to take
    pipelineResults,\* the results object the run fills in
    company,        \* <<>> or <<company record>>
    job,            \* <<>> or <<scrape job record>>
    console,        \* the step banners printed so far
    outcome,        \* <<>> or <<how the run ended>>
    saveCalls,      \* invocations of saveSnapshot in this run
    \* ---- the demo polling hook (SpecPoll)
    companyParam,   \* <<>> or <<the ?company= query parameter>>
    demoState,      \* the hook's React state
    pollIntervalRef,    \* <<>> or <<timer id>>
    elapsedIntervalRef, \* <<>> or <<timer id>>
    timers,         \* the interval timers the browser still runs
    sessions,       \* calls of startPolling so far
    pendingPolls,   \* poll fetches in flight
    pendingChecks,  \* fetchDemoData calls in flight, by phase
    fetchAttempts,  \* poll fetches issued since the last startPolling
    isMountedRef,   \* isMountedRef.current
    lifecycle       \* "", "rendered", "mounted" or "unmounted"

vars == <<item, impactData, signalScore, analyzedItems, signalData, focusAreas,
          synthesis, report, current, previous, comparison, whatsNew, whatsImproved,
          attached, trendTags, runSnapshot, healthIn, healthOut,
          feedbackItems, chainAnswers, batchResults,
          command, options, pc, pipelineResults, company, job, console, outcome,
          saveCalls,
          companyParam, demoState, pollIntervalRef, elapsedIntervalRef, timers,
          sessions, pendingPolls, pendingChecks, fetchAttempts, isMountedRef,
          lifecycle>>

itemVars    == <<item, impactData, signalScore>>
filterVars  == <<analyzedItems, signalData, focusAreas, synthesis, report>>
compareVars == <<current, previous, comparison, whatsNew, whatsImproved,
                 attached, trendTags, runSnapshot>>
healthVars  == <<healthIn, healthOut>>
classifyVars == <<feedbackItems, chainAnswers, batchResults>>
pipeVars    == <<command, options, pc, pipelineResults, company, job, console,
                 outcome, saveCalls>>
pollVars    == <<companyParam, demoState, pollIntervalRef, elapsedIntervalRef,
                 timers, sessions, pendingPolls, pendingChecks, fetchAttempts,
                 isMountedRef, lifecycle>>
serviceVars == <<classifyVars, pipeVars, pollVars>>

-----------------------------------------------------------------------------
(* JavaScript helpers *)

None == <<>>
Some(v) == <<v>>
Has(x) == x # <<>>
Val(x) == x[1]

Min(a, b) == IF a <= b THEN a ELSE b
Max(a, b) == IF a >= b THEN a ELSE b

\* a || b on optional numbers: a is falsy when absent or 0
OrNum(a, b) == IF Has(a) /\ Val(a) # 0 THEN a ELSE b
\* (a || 0) as a number
NumOr0(a) == IF Has(a) THEN Val(a) ELSE 0

\* Math.round(n / d) for d > 0: floor(n/d + 1/2)
RoundDiv(n, d) == (2 * n + d) \div (2 * d)

-----------------------------------------------------------------------------
(* doubles                                                                 *)
(* A double d with 0 <= d < 2 is the integer d * 2^57, held in two limbs   *)
(* [hi, lo] with value hi * 2^29 + lo; every double in [2^-5, 2) that the  *)
(* signal score meets is such an integer.  DblRound rounds an exact sum to *)
(* 53 significant bits, ties to even, as the hardware addition does.       *)

Limb == 2^29

Norm(hi, lo) ==
    IF lo >= Limb THEN [hi |-> hi + 1, lo |-> lo - Limb]
    ELSE IF lo < 0 THEN [hi |-> hi - 1, lo |-> lo + Limb]
    ELSE [hi |-> hi, lo |-> lo]

\* the spacing of doubles at the magnitude of x, in units of 2^-57
Ulp(x) ==
    IF x.hi >= 2^28 THEN 32
    ELSE IF x.hi >= 2^27 THEN 16
    ELSE IF x.hi >= 2^26 THEN 8
    ELSE IF x.hi >= 2^25 THEN 4
    ELSE IF x.hi >= 2^24 THEN 2
    ELSE 1

DblRound(x) ==
    LET u    == Ulp(x)
        r    == x.lo % u
        odd  == (x.lo \div u) % 2 = 1
        up   == (2 * r > u) \/ (2 * r = u /\ odd)
    IN  Norm(x.hi, x.lo - r + (IF up THEN u ELSE 0))

DblAdd(a, b) == DblRound(Norm(a.hi + b.hi, a.lo + b.lo))
\* a - b for a >= b (the signal score never goes below 0.5 - 0.2 - 0.2)
DblSub(a, b) == DblRound(Norm(a.hi - b.hi, a.lo - b.lo))
DblGeq(a, b) == a.hi > b.hi \/ (a.hi = b.hi /\ a.lo >= b.lo)
DblMin(a, b) == IF DblGeq(a, b) THEN b ELSE a
DblMax(a, b) == IF DblGeq(a, b) THEN a ELSE b

\* the doubles nearest to the literals of calculateSignalScore
Dbl0   == [hi |-> 0,         lo |-> 0]
Dbl1   == [hi |-> 268435456, lo |-> 0]
Dbl05  == [hi |-> 134217728, lo |-> 0]
Dbl02  == [hi |-> 53687091,  lo |-> 107374184]
Dbl01  == [hi |-> 26843545,  lo |-> 322122548]
Dbl005 == [hi |-> 13421772,  lo |-> 429496730]

-----------------------------------------------------------------------------
(* Impact scorer: calculateImpactScore and its helpers *)

NowHour == 100              \* Date.now(), in whole hours

\* item.upvotes || item.score || 0
EffUpvotes(it) == NumOr0(OrNum(it.upvotes, it.score))
\* item.numComments || 0
EffComments(it) == NumOr0(it.numComments)

\* reach = Math.min(10, (upvotes + comments * 2) / 20), as a fraction over 20
ReachNum(it) == Min(200, EffUpvotes(it) + EffComments(it) * 2)

\* sentiment: 5, or the metadata score with its || 7 fallback
Sentiment(it) ==
    IF it.type = "Constructive"
    THEN NumOr0(OrNum(IF Has(it.problemMetadata)
                      THEN Val(it.problemMetadata).impactScore ELSE None,
                      Some(7)))
    ELSE IF it.type = "Praise"
    THEN NumOr0(OrNum(IF Has(it.delightMetadata)
                      THEN Val(it.delightMetadata).shareability ELSE None,
                      Some(7)))
    ELSE 5

\* createdAt defaults to now; ageInHours = Math.max(1, now - createdAt)
AgeInHours(it) ==
    Max(1, NowHour - (IF Has(it.createdAt) THEN Val(it.createdAt) ELSE NowHour))

\* velocity = Math.min(10, engagementPerHour * 2), as a fraction over the age
VelocityNum(it) ==
    Min(10 * AgeInHours(it), (EffUpvotes(it) + EffComments(it)) * 2)

\* 10 * (reach*0.4 + sentiment*0.3 + velocity*0.3), as a fraction over 5 * age
WeightedNum(it) ==
    ReachNum(it) * AgeInHours(it)
      + 15 * AgeInHours(it) * Sentiment(it)
      + 15 * VelocityNum(it)

\* normalizedScore = Math.round(score * 10) / 10, in tenths
NormalizedScore(it) == RoundDiv(WeightedNum(it), 5 * AgeInHours(it))

generateScoreRationale(it) ==
    LET reachPart == IF ReachNum(it) >= 140 THEN <<"high visibility">>
                     ELSE IF ReachNum(it) >= 80 THEN <<"moderate reach">>
                     ELSE <<>>
        sentPart  == IF Sentiment(it) >= 8
                     THEN <<"strong sentiment intensity">> ELSE <<>>
        velPart   == IF VelocityNum(it) >= 6 * AgeInHours(it)
                     THEN <<"rapid engagement growth">> ELSE <<>>
        dupPart   == IF NumOr0(it.duplicateCount) > 5
                     THEN <<"similar reports">> ELSE <<>>
        parts     == reachPart \o sentPart \o velPart \o dupPart
    IN  IF Len(parts) > 0 THEN parts ELSE <<"standard engagement metrics">>

generateStakes(it, score) ==
    IF it.type = "Constructive"
    THEN IF score >= 70
         THEN [type |-> "risk", message |-> "churn"]
         ELSE [type |-> "risk", message |-> "frustration"]
    ELSE IF it.type = "Praise"
    THEN [type |-> "upside", message |-> "social proof"]
    ELSE [type |-> "neutral", message |-> "monitor"]

calculateImpactScore(it) ==
    [ score     |-> NormalizedScore(it),
      maxScore  |-> 100,
      reach     |-> RoundDiv(ReachNum(it), 2),
      sentiment |-> 10 * Sentiment(it),
      velocity  |-> RoundDiv(10 * VelocityNum(it), AgeInHours(it)),
      rationale |-> generateScoreRationale(it),
      stakes    |-> generateStakes(it, NormalizedScore(it)) ]

-----------------------------------------------------------------------------
(* Signal filter: calculateSignalScore *)

\* item.body?.length || item.content?.length || 0
BodyLength(it) == NumOr0(OrNum(it.bodyLength, it.contentLength))

\* the adjustments of calculateSignalScore, in the order the code applies them
SignalAdjustments(it) ==
    << [on |-> it.type = "Constructive",  add |-> TRUE,  by |-> Dbl02],
       [on |-> it.type = "Praise",        add |-> TRUE,  by |-> Dbl01],
       [on |-> BodyLength(it) > 200,      add |-> TRUE,  by |-> Dbl01],
       [on |-> BodyLength(it) > 500,      add |-> TRUE,  by |-> Dbl01],
       [on |-> EffUpvotes(it) > 10,       add |-> TRUE,  by |-> Dbl005],
       [on |-> EffUpvotes(it) > 50,       add |-> TRUE,  by |-> Dbl01],
       [on |-> EffUpvotes(it) > 100,      add |-> TRUE,  by |-> Dbl01],
       [on |-> Has(it.problemMetadata),   add |-> TRUE,  by |-> Dbl01],
       [on |-> /\ Has(it.problemMetadata)
               /\ Has(Val(it.problemMetadata).impactScore)
               /\ Val(Val(it.problemMetadata).impactScore) >= 7,
                                          add |-> TRUE,  by |-> Dbl01],
       [on |-> it.category = "Rant/Opinion", add |-> FALSE, by |-> Dbl02],
       [on |-> BodyLength(it) < 50,       add |-> FALSE, by |-> Dbl02] >>

\* score += by  /  score -= by, one statement after the other
RECURSIVE ApplyAdjustments(_, _)
ApplyAdjustments(score, adjustments) ==
    IF adjustments = <<>> THEN score
    ELSE LET a == Head(adjustments)
         IN  ApplyAdjustments(
               IF ~a.on THEN score
               ELSE IF a.add THEN DblAdd(score, a.by) ELSE DblSub(score, a.by),
               Tail(adjustments))

\* let score = 0.5; ...; return Math.max(0, Math.min(1, score))
calculateSignalScore(it) ==
    DblMax(Dbl0, DblMin(Dbl1, ApplyAdjustments(Dbl05, SignalAdjustments(it))))

\* the test of filterSignalFromNoise: signalScore >= 0.5
IsHighSignal(score) == DblGeq(score, Dbl05)

\* {...rec, ...extra}: the fields of extra override those of rec
Spread(rec, extra) == extra @@ rec
\* rec.f, undefined when the property is absent
Get(rec, f) == IF f \in DOMAIN rec THEN Some(rec[f]) ELSE None

\* Array.prototype.sort(cmp): a stable sort; Cmp(a, b) > 0 puts b before a
StableSort(s, Cmp(_, _)) ==
    LET RECURSIVE Insert(_, _)
        Insert(x, t) ==
            IF t = <<>> THEN <<x>>
            ELSE IF Cmp(Head(t), x) <= 0
                 THEN <<Head(t)>> \o Insert(x, Tail(t))
                 ELSE <<x>> \o t
        RECURSIVE Sort(_)
        Sort(t) ==
            IF t = <<>> THEN <<>>
            ELSE Insert(t[Len(t)], Sort(SubSeq(t, 1, Len(t) - 1)))
    IN  Sort(s)

\* Array.prototype.filter
SelectSeqBy(s, Test(_)) ==
    LET RECURSIVE Sel(_)
        Sel(t) ==
            IF t = <<>> THEN <<>>
            ELSE (IF Test(Head(t)) THEN <<Head(t)>> ELSE <<>>) \o Sel(Tail(t))
    IN  Sel(s)

\* a slip that sorts the high-signal items by ascending impact
ByImpactDesc_Ascending(a, b) == a.impactData.score - b.impactData.score

\* (a, b) => b.impactData.score - a.impactData.score
ByImpactDesc(a, b) == b.impactData.score - a.impactData.score

\* the loop of filterSignalFromNoise: every item gets both scores; a
\* high-signal item keeps both, a noise item only its signal score
HighSignalOf(items) ==
    LET Keep(it) == IsHighSignal(calculateSignalScore(it))
        Scored(it) == Spread(it, [signalScore |-> calculateSignalScore(it),
                                  impactData |-> calculateImpactScore(it)])
        kept == SelectSeqBy(items, Keep)
    IN  [i \in 1..Len(kept) |-> Scored(kept[i])]

\* a slip that pushes every item to noise, the high-signal ones included
NoiseOf_EveryItem(items) ==
    [i \in 1..Len(items) |->
        Spread(items[i], [signalScore |-> calculateSignalScore(items[i])])]

NoiseOf(items) ==
    LET Drop(it) == ~IsHighSignal(calculateSignalScore(it))
        Tagged(it) == Spread(it, [signalScore |-> calculateSignalScore(it)])
        dropped == SelectSeqBy(items, Drop)
    IN  [i \in 1..Len(dropped) |-> Tagged(dropped[i])]

filterSignalFromNoise(items) ==
    [ highSignal |-> StableSort(HighSignalOf(items), ByImpactDesc),
      noise      |-> NoiseOf(items) ]

-----------------------------------------------------------------------------
(* Focus-area clusterer: clusterIntoFocusAreas *)

\* a || b on optional strings: a is falsy when absent or empty
OrStr(a, b) == IF Has(a) /\ Val(a) # "" THEN a ELSE b

\* item.problemMetadata?.featureArea || item.delightMetadata?.ahaMonent || 'General'
FeatureAreaOf(it) ==
    Val(OrStr(IF Has(it.problemMetadata)
              THEN Get(Val(it.problemMetadata), "featureArea") ELSE None,
              OrStr(IF Has(it.delightMetadata)
                    THEN Get(Val(it.delightMetadata), "ahaMonent") ELSE None,
                    Some("General"))))

\* the category mapping, in the order the code tests
MapCategory(it) ==
    IF it.category = "Feature Request" THEN "feature_request"
    ELSE IF it.category = "Bug" THEN "bug"
    ELSE IF it.type = "Praise" THEN "praise"
    ELSE "usability_friction"

\* a slip that groups by category alone
AreaKey_CategoryOnly(it) == <<MapCategory(it), "General">>

\* `${category}:${featureArea}`; no category contains a colon, so the string
\* determines the pair
AreaKey(it) == <<MapCategory(it), FeatureAreaOf(it)>>

NewArea(it) ==
    [ id |-> AreaKey(it), title |-> FeatureAreaOf(it),
      category |-> MapCategory(it), items |-> <<>>, totalScore |-> 0,
      quotes |-> <<>>, segments |-> <<>> ]

\* the loop body on an existing accumulator
AddToArea(area, it) ==
    LET impact  == Get(it, "impactData")
        quote   == it.keyQuote
        segment == IF Has(it.problemMetadata)
                   THEN Val(it.problemMetadata).userSegmentGuess ELSE None
    IN  [ area EXCEPT
            !.items = Append(@, it),
            !.totalScore = @ + (IF Has(impact) THEN Val(impact).score ELSE 0),
            !.quotes = IF Has(OrStr(quote, None)) THEN Append(@, Val(quote)) ELSE @,
            !.segments = IF Has(OrStr(segment, None))
                            /\ \A k \in 1..Len(@) : @[k] # Val(segment)
                         THEN Append(@, Val(segment)) ELSE @ ]

\* areas[key], created on first use; accumulators stay in insertion order
RECURSIVE Accumulate(_, _)
Accumulate(areas, items) ==
    IF items = <<>> THEN areas
    ELSE LET it == Head(items)
             known == \E k \in 1..Len(areas) : areas[k].id = AreaKey(it)
             with == IF known THEN areas ELSE Append(areas, NewArea(it))
             next == [k \in 1..Len(with) |->
                        IF with[k].id = AreaKey(it)
                        THEN AddToArea(with[k], it) ELSE with[k]]
         IN  Accumulate(next, Tail(items))

\* a slip that takes stakes, rationale and quote from the last member
Aggregate_LastMember(area) ==
    LET n    == Len(area.items)
        last == IF n > 0 THEN Get(area.items[n], "impactData") ELSE None
    IN  Spread(area,
          [ frequency |-> n,
            avgImpact |-> IF n > 0 THEN [num |-> area.totalScore, den |-> n]
                          ELSE [num |-> 0, den |-> 1],
            topQuote |-> IF Len(area.quotes) > 0
                         THEN area.quotes[Len(area.quotes)] ELSE "",
            affectedSegments |-> area.segments,
            stakes |-> IF Has(last) THEN Val(last).stakes
                       ELSE [type |-> "neutral", message |-> ""],
            scoreRationale |-> IF Has(last) THEN Val(last).rationale ELSE <<>> ])

\* the aggregates; avgImpact = totalScore / items.length is kept as a fraction
Aggregate(area) ==
    LET n     == Len(area.items)
        first == IF n > 0 THEN Get(area.items[1], "impactData") ELSE None
    IN  Spread(area,
          [ frequency |-> n,
            avgImpact |-> IF n > 0 THEN [num |-> area.totalScore, den |-> n]
                          ELSE [num |-> 0, den |-> 1],
            topQuote |-> IF Len(area.quotes) > 0 THEN area.quotes[1] ELSE "",
            affectedSegments |-> area.segments,
            stakes |-> IF Has(first) THEN Val(first).stakes
                       ELSE [type |-> "neutral", message |-> ""],
            scoreRationale |-> IF Has(first) THEN Val(first).rationale ELSE <<>> ])

\* a slip that sorts the areas by ascending avgImpact
ByAvgImpactDesc_Ascending(a, b) ==
    a.avgImpact.num * b.avgImpact.den - b.avgImpact.num * a.avgImpact.den

\* (a, b) => b.avgImpact - a.avgImpact, by its sign
ByAvgImpactDesc(a, b) ==
    b.avgImpact.num * a.avgImpact.den - a.avgImpact.num * b.avgImpact.den

clusterIntoFocusAreas(items) ==
    LET areas == Accumulate(<<>>, items)
    IN  StableSort([k \in 1..Len(areas) |-> Aggregate(areas[k])], ByAvgImpactDesc)

\* the keyword test on title and body; item.mentions names the keyword groups
\* ('switched to', 'left', ... / 'new to', ... / 'power user', 'team', ...)
\* of which the text contains a phrase
inferUserType(it) ==
    IF "churned" \in it.mentions THEN "churned"
    ELSE IF "new_user" \in it.mentions THEN "new_user"
    ELSE IF "power_user" \in it.mentions THEN "power_user"
    ELSE "general"

-----------------------------------------------------------------------------
(* Synthesis orchestrator: synthesizeFeedback without a previous snapshot *)

TopAreas == 10              \* focusAreas.slice(0, 10)

Take(s, n) == SubSeq(s, 1, Min(n, Len(s)))

\* previousSnapshot.focusAreas.find(fa => same title and category): the first
FindPrevious(area, snapshot) ==
    LET hits == {k \in 1..Len(snapshot.focusAreas) :
                    /\ snapshot.focusAreas[k].title = area.title
                    /\ snapshot.focusAreas[k].category = area.category}
    IN  IF hits = {} THEN None
        ELSE Some(snapshot.focusAreas[CHOOSE k \in hits : \A j \in hits : k <= j])

\* by the frequency delta alone
calculateTrend(currentArea, previousSnapshot) ==
    LET prior == FindPrevious(currentArea, previousSnapshot)
        delta == currentArea.frequency - Val(prior).frequency
    IN  IF ~Has(prior) THEN "new"
        ELSE IF delta > 2 THEN "up"
        ELSE IF delta < 0 - 2 THEN "down"
        ELSE "stable"

calculateTrendDelta(currentArea, previousSnapshot) ==
    LET prior == FindPrevious(currentArea, previousSnapshot)
    IN  IF ~Has(prior) THEN currentArea.frequency
        ELSE currentArea.frequency - Val(prior).frequency

\* trend: previousSnapshot ? calculateTrend(fa, previousSnapshot) : 'new', and
\* trendDelta likewise
TrendOf(fa, previousSnapshot) ==
    IF Has(previousSnapshot)
    THEN [ trend |-> calculateTrend(fa, Val(previousSnapshot)),
           trendDelta |-> calculateTrendDelta(fa, Val(previousSnapshot)) ]
    ELSE [ trend |-> "new", trendDelta |-> 0 ]

\* focusAreas.slice(0, 10).map((fa, idx) => ({...fa, ...llmArea, ...})); the
\* pipeline passes no previous snapshot
EnhanceAreas(areas, llmAreas) ==
    LET top == Take(areas, TopAreas)
    IN  [ idx \in 1..Len(top) |->
            Spread(IF idx <= Len(llmAreas) THEN Spread(top[idx], llmAreas[idx])
                   ELSE top[idx],
                   [impactScore |-> top[idx].avgImpact]
                      @@ TrendOf(top[idx], None)) ]

\* rawScores: signalData.highSignal.map(item => ({id, impactData}))
RawScoresOf(sd) ==
    [ i \in 1..Len(sd.highSignal) |->
        [ id |-> sd.highSignal[i].sourceId,
          impactData |-> sd.highSignal[i].impactData ] ]

\* the report assembled from the narrative answer
BuildReport(items, sd, areas, llmAreas) ==
    [ status     |-> "returned",
      focusAreas |-> EnhanceAreas(areas, llmAreas),
      metadata   |-> [ totalAnalyzed |-> Len(items),
                       highSignalCount |-> Len(sd.highSignal),
                       noiseFiltered |-> Len(sd.noise) ],
      rawScores  |-> RawScoresOf(sd) ]

Thrown == [status |-> "thrown"]

-----------------------------------------------------------------------------
(* Differential engine: compareSyntheses and its helpers (part_007)        *)
(* impactScore is in tenths.  A sentiment is its positive percentage; the  *)
(* inputs keep the percentages at least ten points apart or equal, where   *)
(* the double comparison delta > 0.02 and the exact one agree.             *)

\* `${fa.category}:${fa.title}`
KeyOf(fa) == <<fa.category, fa.title>>

\* a slip that walks the list itself instead of the Map built from it
MapKeys_PerEntry(areas) == [k \in 1..Len(areas) |-> KeyOf(areas[k])]

\* the keys of new Map(areas.map(fa => [key, fa])), in insertion order
MapKeys(areas) ==
    LET First(k) == \A j \in 1..(k - 1) : KeyOf(areas[j]) # KeyOf(areas[k])
        idx == SelectSeqBy([k \in 1..Len(areas) |-> k], First)
    IN  [i \in 1..Len(idx) |-> KeyOf(areas[idx[i]])]

MapHas(areas, key) == \E k \in 1..Len(areas) : KeyOf(areas[k]) = key

\* Map.get: the entry set last under the key
MapGet(areas, key) ==
    areas[CHOOSE k \in 1..Len(areas) :
            /\ KeyOf(areas[k]) = key
            /\ \A j \in (k + 1)..Len(areas) : KeyOf(areas[j]) # key]

Abs(n) == IF n < 0 THEN 0 - n ELSE n

\* a slip that tests the worsened thresholds first
ChangeType_WorsenedFirst(freqDelta, impactDelta) ==
    IF freqDelta > 2 \/ impactDelta > 10 THEN "worsened"
    ELSE IF freqDelta < 0 - 2 \/ impactDelta < 0 - 10 THEN "improved"
    ELSE "stable"

\* the if / else-if chain on the two deltas (impact in tenths)
ChangeType(freqDelta, impactDelta) ==
    IF freqDelta < 0 - 2 \/ impactDelta < 0 - 10 THEN "improved"
    ELSE IF freqDelta > 2 \/ impactDelta > 10 THEN "worsened"
    ELSE "stable"

\* the entry compareSyntheses pushes for a key of the current run, with the
\* bucket it is pushed to
ClassifyArea(currentArea, previousAreas) ==
    IF ~MapHas(previousAreas, KeyOf(currentArea))
    THEN [ bucket |-> "newIssues",
           entry |-> Spread(currentArea,
              [ changeType |-> "new",
                insight |-> <<"New", currentArea.category, "detected",
                              currentArea.title>> ]) ]
    ELSE LET previousArea == MapGet(previousAreas, KeyOf(currentArea))
             freqDelta == currentArea.frequency - previousArea.frequency
             impactDelta == currentArea.impactScore - previousArea.impactScore
             deltas == [ previousFrequency |-> previousArea.frequency,
                         frequencyDelta |-> freqDelta,
                         impactDelta |-> impactDelta ]
             change == ChangeType(freqDelta, impactDelta)
         IN  IF change = "improved"
             THEN [ bucket |-> "improvedIssues",
                    entry |-> Spread(currentArea, deltas @@
                       [ changeType |-> "improved",
                         insight |-> <<currentArea.title, "has improved",
                                       Abs(freqDelta), "fewer mentions">> ]) ]
             ELSE IF change = "worsened"
             THEN [ bucket |-> "worsenedIssues",
                    entry |-> Spread(currentArea, deltas @@
                       [ changeType |-> "worsened",
                         insight |-> <<currentArea.title, "is growing",
                                       freqDelta, "more mentions">> ]) ]
             ELSE [ bucket |-> "stableIssues",
                    entry |-> Spread(currentArea,
                       deltas @@ [changeType |-> "stable"]) ]

ResolvedEntry(previousArea) ==
    Spread(previousArea,
      [ changeType |-> "resolved",
        insight |-> <<previousArea.title, "no longer appearing in feedback">> ])

\* the five buckets after both loops
ChangesOf(currentList, previousList) ==
    LET curKeys == MapKeys(currentList)
        classified == [i \in 1..Len(curKeys) |->
                         ClassifyArea(MapGet(currentList, curKeys[i]), previousList)]
        Bucket(name) ==
            LET In(c) == c.bucket = name
                sel == SelectSeqBy(classified, In)
            IN  [i \in 1..Len(sel) |-> sel[i].entry]
        prevKeys == MapKeys(previousList)
        Gone(key) == ~MapHas(currentList, key)
        goneKeys == SelectSeqBy(prevKeys, Gone)
    IN  [ newIssues      |-> Bucket("newIssues"),
          improvedIssues |-> Bucket("improvedIssues"),
          worsenedIssues |-> Bucket("worsenedIssues"),
          stableIssues   |-> Bucket("stableIssues"),
          resolvedIssues |-> [i \in 1..Len(goneKeys) |->
                                ResolvedEntry(MapGet(previousList, goneKeys[i]))] ]

\* null when either sentiment is missing; positive is a whole percentage and
\* the ratio difference is compared with 0.02 as the percentage difference
\* with 2 (the run contexts keep it away from 2, where binary rounding of
\* the ratios decides)
calculateSentimentTrend(cur, prev) ==
    IF ~Has(cur) \/ ~Has(prev) THEN None
    ELSE LET delta == Val(cur).positive - Val(prev).positive
         IN  Some([ current |-> Val(cur), previous |-> Val(prev),
                    delta |-> delta,
                    direction |-> IF delta > 2 THEN "improving"
                                  ELSE IF delta < 0 - 2 THEN "declining"
                                  ELSE "stable",
                    moodChange |-> Val(cur).mood # Val(prev).mood ])

\* percentChange > 10 is up, < -10 is down
calculateDirection(cur, prev) ==
    IF prev > 0 /\ (cur - prev) * 100 > 10 * prev THEN "up"
    ELSE IF prev > 0 /\ (cur - prev) * 100 < 0 - 10 * prev THEN "down"
    ELSE "stable"

IsCritical(issue) == Get(issue, "severityLabel") = Some("Critical")

BaseHealth == 50            \* let score = 50
MaxHealth == 100            \* Math.min(100, ...)

\* the score before the final Math.max(0, Math.min(100, Math.round(score)))
HealthSum(sentimentTrend, changes) ==
    LET direction == IF Has(sentimentTrend)
                     THEN Some(Val(sentimentTrend).direction) ELSE None
    IN  BaseHealth
          + (IF direction = Some("improving") THEN 15 ELSE 0)
          - (IF direction = Some("declining") THEN 15 ELSE 0)
          + Len(changes.resolvedIssues) * 5
          - Len(SelectSeqBy(changes.newIssues, IsCritical)) * 10
          - Len(changes.worsenedIssues) * 3
          + Len(changes.improvedIssues) * 3

\* a slip that returns the sum without the clamp
calculateHealthScore_Unclamped(sentimentTrend, changes) ==
    HealthSum(sentimentTrend, changes)

calculateHealthScore(sentimentTrend, changes) ==
    Max(0, Min(MaxHealth, HealthSum(sentimentTrend, changes)))

\* x.metadata?.totalAnalyzed || 0
TotalAnalyzed(x) == IF Has(x.metadata) THEN Val(x.metadata).totalAnalyzed ELSE 0

\* list.length || 1
LenOr1(l) == IF Len(l) = 0 THEN 1 ELSE Len(l)

calculateOverallTrends(cur, prev, changes) ==
    [ sentiment |-> calculateSentimentTrend(cur.sentiment, prev.sentiment),
      volume |-> [ current |-> TotalAnalyzed(cur), previous |-> TotalAnalyzed(prev),
                   delta |-> TotalAnalyzed(cur) - TotalAnalyzed(prev),
                   direction |-> calculateDirection(TotalAnalyzed(cur),
                                                    TotalAnalyzed(prev)) ],
      resolutionRate |-> RoundDiv(Len(changes.resolvedIssues) * 100,
                                  LenOr1(prev.focusAreas)),
      newIssueRate |-> RoundDiv(Len(changes.newIssues) * 100,
                                LenOr1(cur.focusAreas)),
      overallHealth |-> calculateHealthScore(
                          calculateSentimentTrend(cur.sentiment, prev.sentiment),
                          changes) ]

generateChangeSummary(changes, trends) ==
    LET direction == IF Has(trends.sentiment)
                     THEN Val(trends.sentiment).direction ELSE "none"
        critical == Len(SelectSeqBy(changes.newIssues, IsCritical))
    IN  (IF Len(changes.newIssues) = 0 THEN <<>>
         ELSE IF critical > 0 THEN <<<<critical, "new critical issue(s) detected">>>>
         ELSE <<<<Len(changes.newIssues), "new issue(s) emerged">>>>)
        \o (IF Len(changes.improvedIssues) = 0 THEN <<>>
            ELSE <<<<Len(changes.improvedIssues), "issue(s) showing improvement">>>>)
        \o (IF Len(changes.worsenedIssues) = 0 THEN <<>>
            ELSE <<<<Len(changes.worsenedIssues), "issue(s) getting worse">>>>)
        \o (IF Len(changes.resolvedIssues) = 0 THEN <<>>
            ELSE <<<<Len(changes.resolvedIssues), "issue(s) resolved">>>>)
        \o (IF direction = "improving" THEN <<<<0, "overall sentiment improving">>>>
            ELSE IF direction = "declining"
            THEN <<<<0, "overall sentiment declining">>>>
            ELSE <<>>)

compareSyntheses(cur, prev) ==
    IF ~Has(prev)
    THEN [isFirstRun |-> TRUE, changes |-> None, trends |-> None]
    ELSE LET changes == ChangesOf(cur.focusAreas, Val(prev).focusAreas)
             trends == calculateOverallTrends(cur, Val(prev), changes)
         IN  [ isFirstRun |-> FALSE,
               previousSnapshotDate |-> Val(prev).createdAt,
               changes |-> Some(changes),
               trends |-> Some(trends),
               summary |-> generateChangeSummary(changes, trends) ]

\* how a call ends: with a value, or throwing what reading a property of
\* null throws
Returned(v) == [returned |-> v]
TypeError == [threw |-> "TypeError"]

TopChanges == 10            \* items.slice(0, 10)
DefaultHealth == 50         \* comparison.trends?.overallHealth || 50

\* issue.severityLabel || 'Medium'
SeverityOf(issue) ==
    IF "severityLabel" \in DOMAIN issue /\ issue.severityLabel # ""
    THEN issue.severityLabel ELSE "Medium"

getWhatsNew(cmp) ==
    IF cmp.isFirstRun
    THEN Returned([headline |-> "First Analysis Run", items |-> <<>>])
    ELSE IF ~Has(cmp.changes) THEN TypeError
    ELSE LET changes == Val(cmp.changes)
             Big(issue) == Abs(issue.frequencyDelta) >= 3
             big == SelectSeqBy(changes.improvedIssues, Big)
             items ==
               [i \in 1..Len(changes.newIssues) |->
                  [ type |-> "new_issue",
                    severity |-> SeverityOf(changes.newIssues[i]),
                    title |-> changes.newIssues[i].title,
                    category |-> changes.newIssues[i].category,
                    insight |-> changes.newIssues[i].insight ]]
               \o [i \in 1..Len(big) |->
                  [ type |-> "improvement", title |-> big[i].title,
                    delta |-> big[i].frequencyDelta, insight |-> big[i].insight ]]
               \o [i \in 1..Len(changes.resolvedIssues) |->
                  [ type |-> "resolved",
                    title |-> changes.resolvedIssues[i].title,
                    insight |-> changes.resolvedIssues[i].insight ]]
         IN  Returned(
               [ headline |-> cmp.summary,
                 items |-> SubSeq(items, 1, Min(TopChanges, Len(items))),
                 healthScore |-> IF Has(cmp.trends)
                                 THEN Val(OrNum(Some(Val(cmp.trends).overallHealth),
                                                Some(DefaultHealth)))
                                 ELSE DefaultHealth ])

getWhatsImproved(cmp) ==
    IF cmp.isFirstRun THEN Returned(<<>>)
    ELSE IF ~Has(cmp.changes) THEN TypeError
    ELSE LET improved == Val(cmp.changes).improvedIssues
         IN  Returned(
               [i \in 1..Len(improved) |->
                  [ title |-> improved[i].title,
                    category |-> improved[i].category,
                    previousFrequency |-> improved[i].previousFrequency,
                    currentFrequency |-> improved[i].frequency,
                    delta |-> improved[i].frequencyDelta,
                    impactDelta |-> improved[i].impactDelta,
                    insight |-> improved[i].insight ]])

\* bucket.find(i => key of i === key): the first such entry, or undefined
FindIssue(bucket, key) ==
    LET hits == {k \in 1..Len(bucket) : KeyOf(bucket[k]) = key}
    IN  IF hits = {} THEN None
        ELSE Some(bucket[CHOOSE k \in hits : \A j \in hits : k <= j])

\* the tags of one area when there is a previous run: new, improved,
\* worsened, stable are looked up in this order
TagArea(fa, changes) ==
    LET improved == FindIssue(changes.improvedIssues, KeyOf(fa))
        worsened == FindIssue(changes.worsenedIssues, KeyOf(fa))
        newIssue == FindIssue(changes.newIssues, KeyOf(fa))
        stable   == FindIssue(changes.stableIssues, KeyOf(fa))
    IN  IF Has(newIssue)
        THEN Spread(fa, [trend |-> "new", trendDelta |-> fa.frequency])
        ELSE IF Has(improved)
        THEN Spread(fa, [trend |-> "down",
                         trendDelta |-> Val(improved).frequencyDelta])
        ELSE IF Has(worsened)
        THEN Spread(fa, [trend |-> "up",
                         trendDelta |-> Val(worsened).frequencyDelta])
        ELSE IF Has(stable)
        THEN Spread(fa, [trend |-> "stable",
                         trendDelta |-> Val(stable).frequencyDelta])
        ELSE Spread(fa, [trend |-> "stable", trendDelta |-> 0])

\* a slip that omits the first-run branch and reads the null changes
attachTrendData_NoFirstRunBranch(areas, cmp) ==
    IF ~Has(cmp.changes) THEN TypeError
    ELSE Returned([k \in 1..Len(areas) |-> TagArea(areas[k], Val(cmp.changes))])

attachTrendData(areas, cmp) ==
    IF cmp.isFirstRun
    THEN Returned([k \in 1..Len(areas) |->
                     Spread(areas[k], [trend |-> "new", trendDelta |-> 0])])
    ELSE IF ~Has(cmp.changes) THEN TypeError
    ELSE Returned([k \in 1..Len(areas) |-> TagArea(areas[k], Val(cmp.changes))])

\* createSnapshot(synthesis, companyName): four fields of every focus area,
\* sentiment and metadata as the synthesis holds them
createSnapshot(synth) ==
    [ createdAt |-> "now",
      focusAreas |-> [k \in 1..Len(synth.focusAreas) |->
                        [ title |-> synth.focusAreas[k].title,
                          category |-> synth.focusAreas[k].category,
                          frequency |-> synth.focusAreas[k].frequency,
                          impactScore |-> synth.focusAreas[k].impactScore ]],
      sentiment |-> synth.sentiment,
      metadata |-> synth.metadata ]

(* What the calls leave in the objects they are handed.  compareSyntheses  *)
(* reads both arguments into Maps and spreads their entries into new       *)
(* change records; attachTrendData and createSnapshot map the focus areas  *)
(* to new objects; calculateTrend and calculateTrendDelta only find and    *)
(* subtract.  None assigns to a property of an argument or calls an        *)
(* in-place array method on one.                                           *)
InputsAfterCompare(cur, prev) == [current |-> cur, previous |-> prev]

\* an attachTrendData that writes fa.trend and fa.trendDelta onto the areas
\* it was handed instead of spreading them into new objects
AreasAfterAttach_TaggedInPlace(areas, cmp) ==
    IF "returned" \in DOMAIN attachTrendData(areas, cmp)
    THEN attachTrendData(areas, cmp).returned
    ELSE areas

AreasAfterAttach(areas, cmp) == areas

InputsAfterTrend(cur, previousSnapshot) ==
    [current |-> cur, previous |-> previousSnapshot]

InputAfterSnapshot(synth) == synth

-----------------------------------------------------------------------------
(* Input domains *)

Types == {"Constructive", "Praise", "Neutral"}

\* problemMetadata: absent; as the classifier's schema shapes it (score under
\* prioritization); or flat, as the synthesizer's own sample items shape it
ClassifierProblem(area, s) ==
    Some([featureArea |-> area, impactScore |-> None,
          prioritization |-> Some([impactScore |-> s]),
          userSegmentGuess |-> None])
FlatProblem(area, s) ==
    Some([featureArea |-> area, impactScore |-> Some(s),
          prioritization |-> None,
          userSegmentGuess |-> Some("Power Users")])

ProblemShapes ==
    { None }
    \cup { ClassifierProblem("Sync", s) : s \in {3, 9} }
    \cup { FlatProblem("Sync", s) : s \in {3, 9, 15} }

DelightShapes ==
    { None,
      Some([ahaMonent |-> "AI", shareability |-> Some(9)]),
      Some([ahaMonent |-> "AI", shareability |-> None]) }

\* body / content: absent, or a text of the given length
TextShapes ==
    { [bodyLength |-> b, contentLength |-> None]
        : b \in {None, Some(30), Some(120), Some(300), Some(600)} }
    \cup { [bodyLength |-> None, contentLength |-> Some(300)] }

UpvoteValues == {None, Some(0 - 40), Some(0), Some(20), Some(60), Some(234)}
ScoreValues == {None, Some(100)}
CommentValues == {None, Some(89)}
\* missing, a day old, three hours in the future
CreatedValues == {None, Some(NowHour - 24), Some(NowHour + 3)}
ItemCategories == {"Usability Friction", "Rant/Opinion"}

MkItem(id, ty, cat, txt, up, sc, nc, cr, pm, dm) ==
    [ sourceId |-> id, type |-> ty, category |-> cat,
      bodyLength |-> txt.bodyLength, contentLength |-> txt.contentLength,
      upvotes |-> up, score |-> sc, numComments |-> nc, createdAt |-> cr,
      duplicateCount |-> None,
      mentions |-> IF "mentions" \in DOMAIN txt THEN txt.mentions ELSE {},
      keyQuote |-> IF ty = "Neutral" THEN None ELSE Some("quote"),
      problemMetadata |-> pm, delightMetadata |-> dm ]

ScorerItems ==
    { MkItem(1, ty, cat, txt, up, sc, nc, cr, pm, dm) :
        ty \in Types, cat \in ItemCategories, txt \in TextShapes,
        up \in UpvoteValues, sc \in ScoreValues, nc \in CommentValues,
        cr \in CreatedValues, pm \in ProblemShapes, dm \in DelightShapes }

-----------------------------------------------------------------------------
(* SpecItem: one item through the scorer and the signal score *)

\* the parts of the state a specification does not use stay as they start
ItemIdle == item = None /\ impactData = None /\ signalScore = None
FilterIdle ==
    /\ analyzedItems = <<>> /\ signalData = None /\ focusAreas = None
    /\ synthesis = None /\ report = None
CompareIdle ==
    /\ current = [focusAreas |-> <<>>, sentiment |-> None, metadata |-> None]
    /\ previous = None /\ comparison = None
    /\ whatsNew = None /\ whatsImproved = None
    /\ attached = None /\ trendTags = None /\ runSnapshot = None
HealthIdle == healthIn = None /\ healthOut = None
ClassifyIdle ==
    feedbackItems = <<>> /\ chainAnswers = <<>> /\ batchResults = None
PipeIdle ==
    /\ command = "" /\ options = None /\ pc = "" /\ pipelineResults = None
    /\ company = None /\ job = None /\ console = <<>> /\ outcome = None
    /\ saveCalls = 0
PollIdle ==
    /\ companyParam = None /\ demoState = None
    /\ pollIntervalRef = None /\ elapsedIntervalRef = None /\ timers = {}
    /\ sessions = 0 /\ pendingPolls = 0 /\ pendingChecks = None
    /\ fetchAttempts = 0 /\ isMountedRef = FALSE /\ lifecycle = ""
ServiceIdle == ClassifyIdle /\ PipeIdle /\ PollIdle

InitItem ==
    /\ item \in ScorerItems
    /\ impactData = None
    /\ signalScore = None
    /\ FilterIdle /\ CompareIdle /\ HealthIdle /\ ServiceIdle

\* the loop body of filterSignalFromNoise on one item: both scores
ScoreItem ==
    /\ impactData = None
    /\ impactData' = Some(calculateImpactScore(item))
    /\ signalScore' = Some(calculateSignalScore(item))
    /\ UNCHANGED <<item, filterVars, compareVars, healthVars, serviceVars>>

\* the post gains upvotes and is scored again
Upvote ==
    /\ impactData # None
    /\ Has(item.upvotes)
    /\ \E u \in UpvoteValues :
         /\ Has(u) /\ Val(u) > Val(item.upvotes)
         /\ item' = [item EXCEPT !.upvotes = u]
    /\ impactData' = Some(calculateImpactScore(item'))
    /\ signalScore' = Some(calculateSignalScore(item'))
    /\ UNCHANGED <<filterVars, compareVars, healthVars, serviceVars>>

NextItem == ScoreItem \/ Upvote

SpecItem == InitItem /\ [][NextItem]_vars

-----------------------------------------------------------------------------
(* SpecFilter: a list of items through synthesizeFeedback *)

MaxItems == 2               \* longest list of analysed items
MaxNarrative == 2           \* most focus areas in a narrative answer

ClassifiedKinds ==
    { [type |-> "Constructive", pm |-> ClassifierProblem("Sync", 9), dm |-> None],
      [type |-> "Constructive", pm |-> None, dm |-> None],
      [type |-> "Praise", pm |-> None,
         dm |-> Some([ahaMonent |-> "AI", shareability |-> Some(9)])],
      [type |-> "Neutral", pm |-> None, dm |-> None] }

ClassifiedCategories == {"Feature Request", "Bug", "Rant/Opinion", "N/A"}

\* a short post nobody voted on; a long, popular one
Engagements ==
    { [txt |-> [bodyLength |-> Some(30), contentLength |-> None,
                mentions |-> {}],
       up |-> Some(0), nc |-> None],
      [txt |-> [bodyLength |-> Some(300), contentLength |-> None,
                mentions |-> {"churned", "power_user"}],
       up |-> Some(234), nc |-> Some(89)] }

FilterShapes ==
    { MkItem(0, k.type, cat, e.txt, e.up, None, e.nc, Some(NowHour - 24),
             k.pm, k.dm) :
        k \in ClassifiedKinds, cat \in ClassifiedCategories, e \in Engagements }

\* the items of a list are distinct posts: sourceId is the position, and
\* each post that has a key quote has its own
Quotes == <<"first post", "second post", "third post", "fourth post">>

AnalyzedList(shapes) ==
    [i \in 1..Len(shapes) |->
        [shapes[i] EXCEPT !.sourceId = i,
                          !.keyQuote = IF Has(@) THEN Some(Quotes[i]) ELSE @]]

\* focus areas as the narrative collaborator words them: its own ids, titles,
\* categories and counts, and the labels only it provides
NarrativeEntries ==
    << [ id |-> <<"bug", "Login">>, title |-> "Login", category |-> "bug",
         frequency |-> 7, severityLabel |-> "Critical", topQuote |-> "",
         rootCause |-> "Speed", affectedSegments |-> <<>> ],
       [ id |-> <<"usability_friction", "Sync">>, title |-> "Sync",
         category |-> "usability_friction", frequency |-> 1,
         severityLabel |-> "High", topQuote |-> "", rootCause |-> "Ease",
         affectedSegments |-> <<>> ] >>

\* the answer's focusAreas: missing, or a list of any length up to the bound
NarrativeAnswers ==
    { None } \cup
    { Some([i \in 1..k |-> NarrativeEntries[1 + (i % 2)]]) : k \in 0..MaxNarrative }

InitFilter ==
    /\ \E n \in 0..MaxItems : \E shapes \in [1..n -> FilterShapes] :
          analyzedItems = AnalyzedList(shapes)
    /\ signalData = None
    /\ focusAreas = None
    /\ synthesis = None
    /\ report = None
    /\ ItemIdle /\ CompareIdle /\ HealthIdle /\ ServiceIdle

\* step 1: filter and score
SynthFilter ==
    /\ signalData = None
    /\ signalData' = Some(filterSignalFromNoise(analyzedItems))
    /\ UNCHANGED <<analyzedItems, focusAreas, synthesis, report,
                   itemVars, compareVars, healthVars, serviceVars>>

\* step 2: cluster the high-signal items
SynthCluster ==
    /\ signalData # None /\ focusAreas = None
    /\ focusAreas' = Some(clusterIntoFocusAreas(Val(signalData).highSignal))
    /\ UNCHANGED <<analyzedItems, signalData, synthesis, report,
                   itemVars, compareVars, healthVars, serviceVars>>

\* step 5: the narrative call resolves and the report is assembled; reading
\* synthesis.focusAreas[idx] of an answer without the array throws, which
\* happens only when there is a computed area to merge
SynthReport ==
    /\ focusAreas # None /\ report = None
    /\ \E answer \in NarrativeAnswers :
         /\ synthesis' = Some([settled |-> "resolved", focusAreas |-> answer])
         /\ report' = Some(IF Has(answer)
                           THEN BuildReport(analyzedItems, Val(signalData),
                                            Val(focusAreas), Val(answer))
                           ELSE IF Len(Val(focusAreas)) > 0 THEN Thrown
                           ELSE BuildReport(analyzedItems, Val(signalData),
                                            Val(focusAreas), <<>>))
    /\ UNCHANGED <<analyzedItems, signalData, focusAreas,
                   itemVars, compareVars, healthVars, serviceVars>>

\* step 5: the narrative call rejects; the error is rethrown
SynthThrow ==
    /\ focusAreas # None /\ report = None
    /\ synthesis' = Some([settled |-> "rejected", focusAreas |-> None])
    /\ report' = Some(Thrown)
    /\ UNCHANGED <<analyzedItems, signalData, focusAreas,
                   itemVars, compareVars, healthVars, serviceVars>>

NextFilter == SynthFilter \/ SynthCluster \/ SynthReport \/ SynthThrow

SpecFilter == InitFilter /\ [][NextFilter]_vars

-----------------------------------------------------------------------------
(* SpecCluster: filter and clusterer on longer lists of fewer shapes *)

MaxClustered == 3           \* longest list of items filtered and clustered

\* the kinds and engagements above, under the classifier's category for
\* what is neither request nor friction
ClusterShapes == { sh \in FilterShapes : sh.category = "N/A" }

InitCluster ==
    /\ \E n \in 0..MaxClustered : \E shapes \in [1..n -> ClusterShapes] :
          analyzedItems = AnalyzedList(shapes)
    /\ signalData = None
    /\ focusAreas = None
    /\ synthesis = None
    /\ report = None
    /\ ItemIdle /\ CompareIdle /\ HealthIdle /\ ServiceIdle

NextCluster == SynthFilter \/ SynthCluster

SpecCluster == InitCluster /\ [][NextCluster]_vars

-----------------------------------------------------------------------------
(* SpecCompare: a synthesis compared with a previous snapshot *)

MaxAreas == 2               \* longest focus-area list of a run or a snapshot

\* (frequency, impactScore) of a current area; the snapshot holds (6, 6.0)
CurrentStats ==
    { <<6, 60>>, <<3, 60>>, <<4, 60>>, <<8, 60>>, <<9, 60>>,
      <<6, 48>>, <<6, 50>>, <<6, 70>>, <<6, 72>>, <<3, 72>> }

MkArea(cat, title, freq, impact, label) ==
    [ category |-> cat, title |-> title, frequency |-> freq,
      impactScore |-> impact, severityLabel |-> label ]

CurrentAreas ==
    { MkArea("bug", "Sync", st[1], st[2], "High") : st \in CurrentStats }
    \cup { MkArea("bug", "Export", 6, 60, "Critical"),
           MkArea("bug", "Export", 9, 72, "Critical") }

\* createSnapshot keeps title, category, frequency and impactScore
SnapshotAreas ==
    { [title |-> t, category |-> "bug", frequency |-> 6, impactScore |-> 60]
        : t \in {"Sync", "Export"} }

ListsOf(S, n) == UNION { [1..k -> S] : k \in 0..n }

\* sentiment and volume of the current run; the snapshot holds 50 and 10
RunContexts ==
    { [sentiment |-> None, metadata |-> None] }
    \cup { [ sentiment |-> Some([positive |-> c[1], mood |-> c[2]]),
             metadata |-> Some([totalAnalyzed |-> c[3]]) ]
             : c \in { <<60, "Thriving", 12>>, <<50, "Stable", 10>>,
                       <<40, "Concerning", 8>> } }

Snapshots ==
    { None } \cup
    { Some([ createdAt |-> "yesterday", focusAreas |-> l,
             sentiment |-> Some([positive |-> 50, mood |-> "Stable"]),
             metadata |-> Some([totalAnalyzed |-> 10]) ])
        : l \in ListsOf(SnapshotAreas, MaxAreas) }

InitCompare ==
    /\ current \in { [focusAreas |-> l, sentiment |-> c.sentiment,
                      metadata |-> c.metadata]
                       : l \in ListsOf(CurrentAreas, MaxAreas), c \in RunContexts }
    /\ previous \in Snapshots
    /\ comparison = None
    /\ whatsNew = None /\ whatsImproved = None
    /\ attached = None /\ trendTags = None /\ runSnapshot = None
    /\ ItemIdle /\ FilterIdle /\ HealthIdle /\ ServiceIdle

Compare ==
    /\ comparison = None
    /\ comparison' = Some(compareSyntheses(current, previous))
    /\ current' = InputsAfterCompare(current, previous).current
    /\ previous' = InputsAfterCompare(current, previous).previous
    /\ UNCHANGED <<whatsNew, whatsImproved, attached, trendTags, runSnapshot,
                   itemVars, filterVars, healthVars, serviceVars>>

NextCompare == Compare

SpecCompare == InitCompare /\ [][NextCompare]_vars

-----------------------------------------------------------------------------
(* SpecTrend: a comparison read by its consumers, and the trend tags that  *)
(* synthesizeFeedback derives from the same run and snapshot               *)

TrendAreas ==
    { MkArea("bug", "Sync", st[1], st[2], "High")
        : st \in { <<6, 60>>, <<3, 72>>, <<6, 72>>, <<9, 60>> } }
    \cup { MkArea("bug", "Export", 6, 60, "Critical") }

TrendContexts ==
    { c \in RunContexts : ~Has(c.sentiment) \/ Val(c.sentiment).positive = 60 }

InitTrend ==
    /\ current \in { [focusAreas |-> l, sentiment |-> c.sentiment,
                      metadata |-> c.metadata]
                       : l \in ListsOf(TrendAreas, MaxAreas), c \in TrendContexts }
    /\ previous \in Snapshots
    /\ comparison = None
    /\ whatsNew = None /\ whatsImproved = None
    /\ attached = None /\ trendTags = None /\ runSnapshot = None
    /\ ItemIdle /\ FilterIdle /\ HealthIdle /\ ServiceIdle

GetWhatsNew ==
    /\ comparison # None /\ whatsNew = None
    /\ whatsNew' = Some(getWhatsNew(Val(comparison)))
    /\ UNCHANGED <<current, previous, comparison, whatsImproved, attached,
                   trendTags, runSnapshot,
                   itemVars, filterVars, healthVars, serviceVars>>

GetWhatsImproved ==
    /\ comparison # None /\ whatsImproved = None
    /\ whatsImproved' = Some(getWhatsImproved(Val(comparison)))
    /\ UNCHANGED <<current, previous, comparison, whatsNew, attached,
                   trendTags, runSnapshot,
                   itemVars, filterVars, healthVars, serviceVars>>

AttachTrendData ==
    /\ comparison # None /\ attached = None
    /\ attached' = Some(attachTrendData(current.focusAreas, Val(comparison)))
    /\ current' = [current EXCEPT !.focusAreas =
                       AreasAfterAttach(current.focusAreas, Val(comparison))]
    /\ UNCHANGED <<previous, comparison, whatsNew, whatsImproved,
                   trendTags, runSnapshot,
                   itemVars, filterVars, healthVars, serviceVars>>

\* the trend and trendDelta of the merge in synthesizeFeedback, for the same
\* focus areas and previous snapshot
TagTrends ==
    /\ trendTags = None
    /\ trendTags' = Some([k \in 1..Len(current.focusAreas) |->
                            TrendOf(current.focusAreas[k], previous)])
    /\ current' = InputsAfterTrend(current, previous).current
    /\ previous' = InputsAfterTrend(current, previous).previous
    /\ UNCHANGED <<comparison, whatsNew, whatsImproved, attached, runSnapshot,
                   itemVars, filterVars, healthVars, serviceVars>>

\* the snapshot of the current run, kept for the next comparison
CreateSnapshot ==
    /\ runSnapshot = None
    /\ runSnapshot' = Some(createSnapshot(current))
    /\ current' = InputAfterSnapshot(current)
    /\ UNCHANGED <<previous, comparison, whatsNew, whatsImproved, attached,
                   trendTags, itemVars, filterVars, healthVars, serviceVars>>

NextTrend ==
    \/ Compare \/ GetWhatsNew \/ GetWhatsImproved \/ AttachTrendData
    \/ TagTrends \/ CreateSnapshot

SpecTrend == InitTrend /\ [][NextTrend]_vars

-----------------------------------------------------------------------------
(* SpecHealth: calculateHealthScore on buckets of any size *)

MaxIssues == 11             \* most resolved / new critical issues
MaxOther == 2               \* most issues in each other bucket

Repeat(x, n) == [i \in 1..n |-> x]

Directions == {None, Some([direction |-> "improving"]),
               Some([direction |-> "declining"]), Some([direction |-> "stable"])}

HealthInputs ==
    { [ sentimentTrend |-> d,
        changes |-> [ newIssues |-> Repeat([severityLabel |-> "Critical"], nc)
                                      \o Repeat([severityLabel |-> "High"], nh),
                      resolvedIssues |-> Repeat([changeType |-> "resolved"], nr),
                      worsenedIssues |-> Repeat([changeType |-> "worsened"], nw),
                      improvedIssues |-> Repeat([changeType |-> "improved"], ni),
                      stableIssues |-> <<>> ] ]
        : d \in Directions, nc \in 0..MaxIssues, nr \in 0..MaxIssues,
          nh \in 0..MaxOther, nw \in 0..MaxOther, ni \in 0..MaxOther }

InitHealth ==
    /\ healthIn \in { Some(h) : h \in HealthInputs }
    /\ healthOut = None
    /\ ItemIdle /\ FilterIdle /\ CompareIdle /\ ServiceIdle

Health ==
    /\ healthOut = None
    /\ healthOut' = Some(calculateHealthScore(Val(healthIn).sentimentTrend,
                                              Val(healthIn).changes))
    /\ UNCHANGED <<healthIn, itemVars, filterVars, compareVars, serviceVars>>

NextHealth == Health

SpecHealth == InitHealth /\ [][NextHealth]_vars

-----------------------------------------------------------------------------
(* Batch classifier: classifyFeedback and classifyFeedbackBatch             *)
(* (classifier.js).  classificationChain.invoke is a collaborator: it      *)
(* resolves to a record of classificationSchema or rejects with an Error.  *)
(* confidence is held in hundredths, the average scores in tenths.         *)

BatchSize == 5              \* const { batchSize = 5 } = options

\* a scraped mention: what classifyFeedback, the scorer and the signal
\* filter read from a raw post
Mention(id) ==
    [ sourceId |-> id, sourceUrl |-> "https://reddit.com/r/app",
      title |-> "switched to another app", body |-> "the export keeps failing",
      upvotes |-> 120 + id, numComments |-> 40 + id, commentCount |-> 40 + id,
      createdAt |-> NowHour - id ]

Prioritization(impact, urgency) ==
    [ impactScore |-> impact, urgencyScore |-> urgency, effortEstimate |-> 3 ]

ChainSummary == [ actionableInsight |-> "Prioritize the export flow",
                  replyDraft |-> "Thanks for flagging this.",
                  keyQuote |-> "the export keeps failing" ]

\* records of classificationSchema the structured-output chain resolves to
ChainResults ==
    { [ type |-> "Constructive", category |-> "Usability Friction",
        problemMetadata |-> Some([ rootCause |-> "Reliability",
                                   featureArea |-> "Export",
                                   impactType |-> "Retention",
                                   urgencySignal |-> "High",
                                   prioritization |-> Prioritization(8, 5) ]),
        delightMetadata |-> None, summary |-> ChainSummary,
        confidence |-> 90, reasoning |-> "reports a failure" ],
      [ type |-> "Constructive", category |-> "Feature Request",
        problemMetadata |-> None, delightMetadata |-> None,
        summary |-> ChainSummary,
        confidence |-> 60, reasoning |-> "asks for a feature" ],
      [ type |-> "Praise", category |-> "N/A",
        problemMetadata |-> None,
        delightMetadata |-> Some([ ahaMonent |-> "one-click export",
                                   valuePropValidation |-> "fast",
                                   shareability |-> 7 ]),
        summary |-> ChainSummary,
        confidence |-> 80, reasoning |-> "happy user" ],
      [ type |-> "Neutral", category |-> "N/A",
        problemMetadata |-> None, delightMetadata |-> None,
        summary |-> ChainSummary,
        confidence |-> 50, reasoning |-> "a question" ] }

ChainErrors == {"429 rate limit", "output failed schema validation"}

\* how one call of classificationChain.invoke settles
ChainAnswers ==
    { [resolved |-> r] : r \in ChainResults } \cup
    { [rejected |-> m] : m \in ChainErrors }

\* the catch block of classifyFeedback
DegradedRecord(feedbackItem, message) ==
    [ type |-> "Neutral", category |-> "N/A",
      problemMetadata |-> None, delightMetadata |-> None,
      summary |-> [ actionableInsight |-> "Unable to classify - review manually",
                    replyDraft |-> "Thank you for your feedback!",
                    keyQuote |-> "" ],
      confidence |-> 0,
      reasoning |-> "Classification error: " \o message,
      sourceUrl |-> feedbackItem.sourceUrl,
      sourceId |-> feedbackItem.sourceId ]

\* a classifyFeedback without its try/catch: the rejection passes through
classifyFeedback_Rethrows(feedbackItem, answer) ==
    IF "resolved" \in DOMAIN answer
    THEN Returned(Spread(answer.resolved,
                         [ sourceUrl |-> feedbackItem.sourceUrl,
                           sourceId |-> feedbackItem.sourceId,
                           originalTitle |-> feedbackItem.title ]))
    ELSE [threw |-> answer.rejected]

\* classifyFeedback(feedbackItem), the chain settling as answer says
classifyFeedback(feedbackItem, answer) ==
    IF "resolved" \in DOMAIN answer
    THEN Returned(Spread(answer.resolved,
                         [ sourceUrl |-> feedbackItem.sourceUrl,
                           sourceId |-> feedbackItem.sourceId,
                           originalTitle |-> feedbackItem.title ]))
    ELSE Returned(DegradedRecord(feedbackItem, answer.rejected))

\* obj[key] = (obj[key] || 0) + 1
Bump(obj, key) ==
    IF key \in DOMAIN obj THEN [obj EXCEPT ![key] = @ + 1]
    ELSE (key :> 1) @@ obj

EmptyObject == [k \in {} |-> 0]

\* the body of "for (const result of batchResults)": one result into the
\* running [results, impactSum, urgencySum, scoredCount]
CountResult(acc, result) ==
    LET pushed == [acc EXCEPT !.results.items = Append(@, result)]
    IN  IF result.type = "Constructive"
        THEN LET counted ==
                   [pushed EXCEPT
                      !.results.stats.constructive = @ + 1,
                      !.results.stats.byCategory = Bump(@, result.category)]
             IN  IF Has(result.problemMetadata)
                 THEN LET pm == Val(result.problemMetadata)
                      IN  [counted EXCEPT
                             !.results.stats.byImpactType =
                                 Bump(@, pm.impactType),
                             !.impactSum = @ + pm.prioritization.impactScore,
                             !.urgencySum = @ + pm.prioritization.urgencyScore,
                             !.scoredCount = @ + 1]
                 ELSE counted
        ELSE IF result.type = "Praise"
        THEN [pushed EXCEPT !.results.stats.praise = @ + 1]
        ELSE [pushed EXCEPT !.results.stats.neutral = @ + 1]

\* Promise.all(batch.map(item => classifyFeedback(item))): the results in
\* input order, or the first rejection
PromiseAll(settled) ==
    LET failed == {k \in 1..Len(settled) : "threw" \in DOMAIN settled[k]}
    IN  IF failed = {}
        THEN Returned([k \in 1..Len(settled) |-> settled[k].returned])
        ELSE settled[CHOOSE k \in failed : \A j \in failed : k <= j]

RECURSIVE BatchLoop(_, _, _, _)
\* the for loop over slices of batchSize items, from index i (0-based)
BatchLoop(items, answers, i, acc) ==
    IF i >= Len(items) THEN Returned(acc)
    ELSE LET last == Min(i + BatchSize, Len(items))
             batch == [k \in 1..(last - i) |->
                          classifyFeedback(items[i + k], answers[i + k])]
             all == PromiseAll(batch)
         IN  IF "threw" \in DOMAIN all THEN all
             ELSE LET RECURSIVE Fold(_, _)
                      Fold(a, k) ==
                          IF k > Len(all.returned) THEN a
                          ELSE Fold(CountResult(a, all.returned[k]), k + 1)
                  IN  BatchLoop(items, answers, i + BatchSize, Fold(acc, 1))

\* classifyFeedbackBatch(feedbackItems, {batchSize: 5}): the results object
\* it resolves to, or the rejection that ends it
classifyFeedbackBatch(items, answers) ==
    LET start == [ results |->
                     [ items |-> <<>>,
                       stats |-> [ total |-> Len(items), constructive |-> 0,
                                   praise |-> 0, neutral |-> 0,
                                   byCategory |-> EmptyObject,
                                   byImpactType |-> EmptyObject,
                                   avgImpactScore |-> 0,
                                   avgUrgencyScore |-> 0 ] ],
                   impactSum |-> 0, urgencySum |-> 0, scoredCount |-> 0 ]
        looped == BatchLoop(items, answers, 0, start)
    IN  IF "threw" \in DOMAIN looped THEN looped
        ELSE LET acc == looped.returned
             IN  Returned(
                   IF acc.scoredCount > 0
                   THEN [acc.results EXCEPT
                           !.stats.avgImpactScore =
                               RoundDiv(acc.impactSum * 10, acc.scoredCount),
                           !.stats.avgUrgencyScore =
                               RoundDiv(acc.urgencySum * 10, acc.scoredCount)]
                   ELSE acc.results)

MaxFeedback == 6            \* longest list of mentions classified

InitClassify ==
    /\ \E n \in 0..MaxFeedback :
          /\ feedbackItems = [k \in 1..n |-> Mention(k)]
          /\ chainAnswers \in [1..n -> ChainAnswers]
    /\ batchResults = None
    /\ ItemIdle /\ FilterIdle /\ CompareIdle /\ HealthIdle
    /\ PipeIdle /\ PollIdle

ClassifyBatch ==
    /\ batchResults = None
    /\ batchResults' = Some(classifyFeedbackBatch(feedbackItems, chainAnswers))
    /\ UNCHANGED <<feedbackItems, chainAnswers, itemVars, filterVars,
                   compareVars, healthVars, pipeVars, pollVars>>

NextClassify == ClassifyBatch

SpecClassify == InitClassify /\ [][NextClassify]_vars

-----------------------------------------------------------------------------
(* runPipeline and scout (pipeline.js).  Both functions run the same four  *)
(* steps; each step below is one try/catch of the source, its collaborator *)
(* calls (getOrCreateCompany, createScrapeJob, smartScrape,                *)
(* updateScrapeJob, classifyFeedbackBatch, synthesizeFeedback,             *)
(* insertFeedbackItems, the snapshots insert) resolving or rejecting as    *)
(* the step chooses.  console holds what the run prints about its steps:   *)
(* the banner of a step that runs, the notice of one that is skipped, the  *)
(* console.warn / console.error of a caught failure.                       *)

MinSynthesisItems == 5      \* classificationResults?.items?.length >= 5

Commands == {"runPipeline", "scout"}

\* runPipeline takes skipClassification and skipStorage; scout takes neither
OptionsOf(cmd) ==
    { [ skipClassification |-> sc, skipStorage |-> ss, supabaseAdmin |-> db ] :
        sc \in (IF cmd = "scout" THEN {FALSE} ELSE BOOLEAN),
        ss \in (IF cmd = "scout" THEN {FALSE} ELSE BOOLEAN),
        db \in BOOLEAN }

Said(stage, event) == [stage |-> stage, event |-> event]
Failure(step, message) == [step |-> step, error |-> message]

\* the results object both functions start from; scout's has a snapshot
NewResults(cmd) ==
    LET base == [ scrapeResults |-> None, classificationResults |-> None,
                  executiveSummary |-> None, strategicSynthesis |-> None,
                  errors |-> <<>> ]
    IN  IF cmd = "scout" THEN Spread(base, [snapshot |-> None]) ELSE base

\* generateExecutiveSummary: the overview it derives from the stats (the
\* issue, testimonial and feature-area lists are read off the items and do
\* not fail on records of the schema)
generateExecutiveSummary(classified) ==
    [ overview |->
        [ totalFeedback |-> classified.stats.total,
          constructive |-> classified.stats.constructive,
          praise |-> classified.stats.praise,
          neutral |-> classified.stats.neutral,
          constructiveRate |->
              RoundDiv(classified.stats.constructive * 100,
                       classified.stats.total),
          praiseRate |->
              RoundDiv(classified.stats.praise * 100, classified.stats.total) ],
      prioritization |->
        [ avgImpactScore |-> classified.stats.avgImpactScore,
          avgUrgencyScore |-> classified.stats.avgUrgencyScore ] ]

\* text.length of the texts the mentions carry
TextLength(text) == IF text = "" THEN 0 ELSE 24

\* what the synthesizer reads from an item it is handed: a property the
\* record does not have reads as undefined
AsAnalyzed(rec) ==
    LET text == Get(rec, "body")
        pm == IF "problemMetadata" \in DOMAIN rec THEN rec.problemMetadata
              ELSE None
        dm == IF "delightMetadata" \in DOMAIN rec THEN rec.delightMetadata
              ELSE None
        quote == IF "summary" \in DOMAIN rec THEN Some(rec.summary.keyQuote)
                 ELSE None
    IN  [ sourceId |-> rec.sourceId, type |-> rec.type,
          category |-> rec.category,
          bodyLength |-> IF Has(text) THEN Some(TextLength(Val(text))) ELSE None,
          contentLength |-> None,
          upvotes |-> Get(rec, "upvotes"), score |-> Get(rec, "score"),
          numComments |-> Get(rec, "numComments"),
          createdAt |-> Get(rec, "createdAt"),
          duplicateCount |-> None,
          mentions |-> IF "title" \in DOMAIN rec \/ Has(text)
                       THEN {"churned"} ELSE {},
          keyQuote |-> quote,
          problemMetadata |->
              IF Has(pm)
              THEN Some([ featureArea |-> Val(pm).featureArea,
                          impactScore |-> Get(Val(pm), "impactScore"),
                          prioritization |->
                              Some([impactScore |->
                                      Val(pm).prioritization.impactScore]),
                          userSegmentGuess |->
                              Get(Val(pm), "userSegmentGuess") ])
              ELSE None,
          delightMetadata |->
              IF Has(dm)
              THEN Some([ ahaMonent |-> Val(dm).ahaMonent,
                          shareability |-> Some(Val(dm).shareability) ])
              ELSE None ]

\* synthesizeFeedback(items, companyName), the narrative call settling as
\* answer says: the report, or Thrown
synthesizeFeedback(items, answer) ==
    LET analyzed == [k \in 1..Len(items) |-> AsAnalyzed(items[k])]
        sd == filterSignalFromNoise(analyzed)
        areas == clusterIntoFocusAreas(sd.highSignal)
    IN  IF answer.settled = "rejected" THEN Thrown
        ELSE IF Has(answer.focusAreas)
        THEN BuildReport(analyzed, sd, areas, Val(answer.focusAreas))
        ELSE IF Len(areas) > 0 THEN Thrown
        ELSE BuildReport(analyzed, sd, areas, <<>>)

MaxMentions == 6            \* most mentions smartScrape returns
MaxSaveCalls == 3           \* saveCalls counts invocations up to this many

\* how the chain answers the mentions of a run: a and b in turn
PipelineAnswers ==
    { [resolved |-> r] : r \in { c \in ChainResults : c.confidence >= 80 } }
    \cup { [rejected |-> "429 rate limit"] }

InitPipeline ==
    /\ command \in Commands
    /\ options \in { Some(o) : o \in OptionsOf("runPipeline") }
    /\ command = "scout" => Val(options) \in OptionsOf("scout")
    /\ pc = "company"
    /\ pipelineResults = Some(NewResults(command))
    /\ company = None /\ job = None /\ console = <<>> /\ outcome = None
    /\ saveCalls = 0
    /\ ItemIdle /\ FilterIdle /\ CompareIdle /\ HealthIdle
    /\ ClassifyIdle /\ PollIdle

\* "Get or create company record": a failure is only warned about
PipeCompany ==
    /\ pc = "company"
    /\ IF (command = "runPipeline" => ~Val(options).skipStorage)
          /\ Val(options).supabaseAdmin
       THEN \E found \in BOOLEAN :
               IF found
               THEN company' = Some([id |-> 7]) /\ UNCHANGED console
               ELSE /\ company' = None
                    /\ console' = Append(console, Said("company", "failed"))
       ELSE UNCHANGED <<company, console>>
    /\ pc' = "scrape"
    /\ UNCHANGED <<command, options, pipelineResults, job, outcome, saveCalls,
                   itemVars, filterVars, compareVars, healthVars,
                   classifyVars, pollVars>>

\* the catch block of step 1, entered with the job created so far: the
\* error is recorded, and updateScrapeJob(job.id, {status: 'failed'}) is
\* awaited outside any try
ScrapeCaught(theJob, results, message, said, updateOk) ==
    /\ job' = theJob
    /\ pipelineResults' =
          Some([results EXCEPT !.errors = Append(@, Failure("scraping", message))])
    /\ console' = Append(said, Said("scraping", "failed"))
    /\ IF Has(theJob) /\ ~updateOk
       THEN pc' = "done" /\ outcome' = Some([threw |-> "updateScrapeJob failed"])
       ELSE pc' = "classify" /\ UNCHANGED outcome

\* Step 1: createScrapeJob, smartScrape, updateScrapeJob in one try
PipeScrape ==
    /\ pc = "scrape"
    /\ \E jobOk, scraped, completedOk, failedOk \in BOOLEAN :
       \E n \in 0..MaxMentions :
         LET results == Val(pipelineResults)
             said == Append(console, Said("scraping", "started"))
             needJob == Has(company) /\ Val(options).supabaseAdmin
             newJob == IF needJob THEN Some([id |-> 1]) ELSE None
             scrape == [ mentions |-> [k \in 1..n |-> Mention(k)],
                         subredditsSearched |-> <<"r/app">> ]
             kept == [results EXCEPT !.scrapeResults = Some(scrape)]
         IN  IF needJob /\ ~jobOk
             THEN ScrapeCaught(None, results, "createScrapeJob failed",
                               said, failedOk)
             ELSE IF ~scraped
             THEN ScrapeCaught(newJob, results, "smartScrape failed",
                               said, failedOk)
             ELSE IF Has(newJob) /\ ~completedOk
             THEN ScrapeCaught(newJob, kept, "updateScrapeJob failed",
                               said, failedOk)
             ELSE /\ job' = newJob
                  /\ pipelineResults' = Some(kept)
                  /\ console' = said
                  /\ pc' = "classify"
                  /\ UNCHANGED outcome
    /\ UNCHANGED <<command, options, company, saveCalls,
                   itemVars, filterVars, compareVars, healthVars,
                   classifyVars, pollVars>>

\* !skipClassification && scrapeResults?.mentions?.length > 0
ClassificationDue(cmd, opts, results) ==
    /\ cmd = "runPipeline" => ~opts.skipClassification
    /\ Has(results.scrapeResults)
    /\ Len(Val(results.scrapeResults).mentions) > 0

\* Step 2: classifyFeedbackBatch, then generateExecutiveSummary
PipeClassify ==
    /\ pc = "classify"
    /\ LET results == Val(pipelineResults)
       IN  IF ClassificationDue(command, Val(options), results)
           THEN LET mentions == Val(results.scrapeResults).mentions
                    said == Append(console, Said("classification", "started"))
                IN  \E a, b \in PipelineAnswers : \E resolves \in BOOLEAN :
                      LET call == IF resolves
                                  THEN classifyFeedbackBatch(mentions,
                                         [k \in 1..Len(mentions) |->
                                             IF k % 2 = 1 THEN a ELSE b])
                                  ELSE [threw |-> "classifier unavailable"]
                      IN  IF "returned" \in DOMAIN call
                          THEN /\ pipelineResults' = Some(
                                    [results EXCEPT
                                       !.classificationResults =
                                           Some(call.returned),
                                       !.executiveSummary =
                                           Some(generateExecutiveSummary(
                                                  call.returned))])
                               /\ console' = said
                          ELSE /\ pipelineResults' = Some(
                                    [results EXCEPT !.errors =
                                       Append(@, Failure("classification",
                                                         call.threw))])
                               /\ console' = Append(said,
                                     Said("classification", "failed"))
           ELSE /\ console' = Append(console, Said("classification", "skipped"))
                /\ UNCHANGED pipelineResults
    /\ pc' = "synthesize"
    /\ UNCHANGED <<command, options, company, job, outcome, saveCalls,
                   itemVars, filterVars, compareVars, healthVars,
                   classifyVars, pollVars>>

\* a guard that lets any classified list through
SynthesisDue_AnyItems(results) ==
    /\ Has(results.classificationResults)
    /\ Len(Val(results.classificationResults).items) >= 1

\* classificationResults?.items?.length >= 5
SynthesisDue(results) ==
    /\ Has(results.classificationResults)
    /\ Len(Val(results.classificationResults).items) >= MinSynthesisItems

\* Step 3: synthesizeFeedback(classificationResults.items, companyName)
PipeSynthesize ==
    /\ pc = "synthesize"
    /\ LET results == Val(pipelineResults)
       IN  IF SynthesisDue(results)
           THEN LET said == Append(console, Said("synthesis", "started"))
                IN  \E answer \in
                        { [settled |-> "resolved", focusAreas |-> f] :
                             f \in NarrativeAnswers }
                        \cup { [settled |-> "rejected", focusAreas |-> None] } :
                      LET made == synthesizeFeedback(
                                    Val(results.classificationResults).items,
                                    answer)
                      IN  IF made = Thrown
                          THEN /\ pipelineResults' = Some(
                                    [results EXCEPT !.errors =
                                       Append(@, Failure("synthesis",
                                                         "synthesis failed"))])
                               /\ console' = Append(said,
                                     Said("synthesis", "failed"))
                          ELSE /\ pipelineResults' = Some(
                                    [results EXCEPT
                                       !.strategicSynthesis = Some(made)])
                               /\ console' = said
           ELSE /\ console' = Append(console, Said("synthesis", "skipped"))
                /\ UNCHANGED pipelineResults
    /\ pc' = "store"
    /\ UNCHANGED <<command, options, company, job, outcome, saveCalls,
                   itemVars, filterVars, compareVars, healthVars,
                   classifyVars, pollVars>>

\* !skipStorage && company && supabaseAdmin && classificationResults
StorageDue(cmd, opts, theCompany, results) ==
    /\ cmd = "runPipeline" => ~opts.skipStorage
    /\ Has(theCompany)
    /\ opts.supabaseAdmin
    /\ Has(results.classificationResults)

\* Step 4: insertFeedbackItems; scout goes on to saveSnapshot inside the
\* same try when there is a synthesis
PipeStore ==
    /\ pc = "store"
    /\ LET results == Val(pipelineResults)
       IN  IF StorageDue(command, Val(options), company, results)
           THEN LET said == Append(console, Said("storage", "started"))
                IN  \E inserted \in BOOLEAN :
                      IF ~inserted
                      THEN /\ pipelineResults' = Some(
                                [results EXCEPT !.errors =
                                   Append(@, Failure("storage",
                                              "insertFeedbackItems failed"))])
                           /\ console' = Append(said, Said("storage", "failed"))
                           /\ pc' = "done"
                           /\ outcome' = Some(Returned("results"))
                           /\ UNCHANGED saveCalls
                      ELSE IF command = "scout" /\ Has(results.strategicSynthesis)
                      THEN /\ console' = said
                           /\ pc' = "save"
                           /\ saveCalls' = 1
                           /\ UNCHANGED <<pipelineResults, outcome>>
                      ELSE /\ console' = said
                           /\ pc' = "done"
                           /\ outcome' = Some(Returned("results"))
                           /\ UNCHANGED <<pipelineResults, saveCalls>>
           ELSE /\ console' =
                     IF command = "scout" /\ Val(options).supabaseAdmin
                     THEN console
                     ELSE IF command = "runPipeline"
                             /\ ~Val(options).skipStorage
                             /\ Val(options).supabaseAdmin
                     THEN console
                     ELSE Append(console, Said("storage", "skipped"))
                /\ pc' = "done"
                /\ outcome' = Some(Returned("results"))
                /\ UNCHANGED <<pipelineResults, saveCalls>>
    /\ UNCHANGED <<command, options, company, job,
                   itemVars, filterVars, compareVars, healthVars,
                   classifyVars, pollVars>>

\* saveSnapshot: the insert into snapshots settles.  Error code 42P01 sends
\* the call to createSnapshotsTable and then into saveSnapshot again; any
\* other error is thrown into scout's storage catch
PipeSave ==
    /\ pc = "save"
    /\ LET results == Val(pipelineResults)
       IN  \E insert \in {"ok", "42P01", "other"} :
             IF ~Val(options).supabaseAdmin
             THEN /\ pc' = "done"
                  /\ outcome' = Some(Returned("results"))
                  /\ UNCHANGED <<pipelineResults, console>>
             ELSE IF insert = "ok"
             THEN /\ pipelineResults' = Some(
                       [results EXCEPT !.snapshot = Some([id |-> 1])])
                  /\ pc' = "done"
                  /\ outcome' = Some(Returned("results"))
                  /\ UNCHANGED console
             ELSE IF insert = "42P01"
             THEN /\ pc' = "createTable"
                  /\ UNCHANGED <<pipelineResults, console, outcome>>
             ELSE /\ pipelineResults' = Some(
                       [results EXCEPT !.errors =
                          Append(@, Failure("storage", "insert failed"))])
                  /\ console' = Append(console, Said("storage", "failed"))
                  /\ pc' = "done"
                  /\ outcome' = Some(Returned("results"))
    /\ UNCHANGED <<command, options, company, job, saveCalls,
                   itemVars, filterVars, compareVars, healthVars,
                   classifyVars, pollVars>>

\* createSnapshotsTable prints the SQL to run by hand and returns; the
\* caller then returns saveSnapshot(tenantId, companyId, synthesis, metadata)
PipeCreateTable ==
    /\ pc = "createTable"
    /\ pc' = "save"
    /\ saveCalls' = Min(saveCalls + 1, MaxSaveCalls)
    /\ UNCHANGED <<command, options, pipelineResults, company, job, console,
                   outcome,
                   itemVars, filterVars, compareVars, healthVars,
                   classifyVars, pollVars>>

NextPipeline ==
    \/ PipeCompany \/ PipeScrape \/ PipeClassify \/ PipeSynthesize
    \/ PipeStore \/ PipeSave \/ PipeCreateTable

SpecPipeline == InitPipeline /\ [][NextPipeline]_vars

\* the event loop runs every continuation that is ready: a settled insert
\* resumes saveSnapshot, and createSnapshotsTable returns
SpecPipelineFair ==
    SpecPipeline /\ WF_vars(PipeSave) /\ WF_vars(PipeCreateTable)

-----------------------------------------------------------------------------
(* SpecRank: one run over many focus areas, from the items to the          *)
(* snapshot.  Every item is a Constructive, high-signal post about a       *)
(* feature area of its own; the narrative collaborator answers with one    *)
(* entry per summary line it was sent, under the same title and category.  *)

MaxRanked == 11             \* most focus areas a run computes

\* the k-th post: popular, or (the one chosen) a little or much less so
RankedItem(k, mid, low) ==
    [ MkItem(k, "Constructive", "Usability Friction",
             [bodyLength |-> Some(300), contentLength |-> None],
             Some(IF k = low THEN 20 ELSE IF k = mid THEN 60 ELSE 234),
             None, Some(89), Some(NowHour - 24),
             ClassifierProblem("Area " \o ToString(k), 9), None)
        EXCEPT !.keyQuote = Some("post " \o ToString(k)) ]

\* the focusAreas of the narrative answer: one entry per line of
\* focusAreasText (focusAreas.slice(0, 10))
EchoAnswer(areas) ==
    [ k \in 1..Min(Len(areas), TopAreas) |->
        [ title |-> areas[k].title, category |-> areas[k].category,
          severityLabel |-> "High", rootCause |-> "Ease" ] ]

InitRank ==
    /\ \E n \in 0..MaxRanked : \E mid, low \in 0..n :
          analyzedItems = [k \in 1..n |-> RankedItem(k, mid, low)]
    /\ signalData = None
    /\ focusAreas = None
    /\ synthesis = None
    /\ report = None
    /\ ItemIdle /\ CompareIdle /\ HealthIdle /\ ServiceIdle

\* step 5 and the merge, the narrative call resolving
RankReport ==
    /\ focusAreas # None /\ report = None
    /\ synthesis' = Some([ settled |-> "resolved",
                           focusAreas |-> Some(EchoAnswer(Val(focusAreas))) ])
    /\ report' = Some(BuildReport(analyzedItems, Val(signalData),
                                  Val(focusAreas),
                                  EchoAnswer(Val(focusAreas))))
    /\ UNCHANGED <<analyzedItems, signalData, focusAreas,
                   itemVars, compareVars, healthVars, serviceVars>>

\* createSnapshot(report, companyName); the report holds the sentiment of
\* the narrative answer
RankSnapshot ==
    /\ report # None /\ runSnapshot = None
    /\ runSnapshot' = Some(createSnapshot(
                              Spread(Val(report),
                                     [sentiment |-> Some([positive |-> 60,
                                                          mood |-> "Stable"])])))
    /\ UNCHANGED <<current, previous, comparison, whatsNew, whatsImproved,
                   attached, trendTags,
                   itemVars, filterVars, healthVars, serviceVars>>

NextRank == SynthFilter \/ SynthCluster \/ RankReport \/ RankSnapshot

SpecRank == InitRank /\ [][NextRank]_vars

-----------------------------------------------------------------------------
(* SpecPoll: the demo polling hook useDemoMode.  The hook's operations may  *)
(* be called in any order once it is mounted; interval timers tick and     *)
(* fetches complete whenever the browser gets to them.                     *)

MAX_POLL_COUNT == 20

MaxSessions == 2            \* calls of startPolling in a run
MaxInFlight == 2            \* poll fetches in flight at once
MaxManual == 1              \* fetchDemoData calls in flight at once
MaxElapsed == 1             \* seconds counted by the elapsed-time timer
MaxOverrun == 2             \* polls counted beyond MAX_POLL_COUNT

\* useState<DemoState>({...})
InitialDemoState ==
    [ companyName |-> "", synthesis |-> None, status |-> "idle",
      dataSource |-> "none", error |-> None, lastFetchedAt |-> None,
      pollCount |-> 0, maxPolls |-> MAX_POLL_COUNT, isPolling |-> FALSE,
      pipelineStage |-> "connecting", elapsedSeconds |-> 0 ]

\* the interval timers of the k-th startPolling call
ElapsedTimer(k) == 2 * k - 1
PollTimer(k) == 2 * k
IsPollTimer(id) == id % 2 = 0

\* if (ref.current) clearInterval(ref.current)
ClearInterval(active, ref) ==
    IF Has(ref) THEN active \ {Val(ref)} ELSE active

\* stopPolling(): what it leaves of the timers, the refs and the state
stopPolling(state, active, mounted) ==
    [ timers |-> ClearInterval(ClearInterval(active, pollIntervalRef),
                               elapsedIntervalRef),
      state |-> IF mounted THEN Spread(state, [isPolling |-> FALSE])
                ELSE state ]

\* the pipeline stage shown for a poll count
StageOf(newPollCount) ==
    IF newPollCount > 12 THEN "synthesizing"
    ELSE IF newPollCount > 8 THEN "analyzing"
    ELSE IF newPollCount > 4 THEN "scraping"
    ELSE "discovery"

\* poll(), up to its await: the state updater, which stops the polling at
\* the limit, and whether the fetch is issued
poll(state, active, pollRef, elapsedRef, mounted) ==
    LET newPollCount == state.pollCount + 1 IN
    IF ~mounted
    THEN [ state |-> state, timers |-> active, pollRef |-> pollRef,
           elapsedRef |-> elapsedRef, fetches |-> 0 ]
    ELSE IF newPollCount >= MAX_POLL_COUNT
    THEN [ state |-> Spread(state,
                       [ status |-> "timeout", isPolling |-> FALSE,
                         pollCount |-> newPollCount,
                         error |-> Some("Analysis is taking longer than expected") ]),
           timers |-> ClearInterval(ClearInterval(active, pollRef), elapsedRef),
           pollRef |-> None, elapsedRef |-> None, fetches |-> 1 ]
    ELSE [ state |-> Spread(state, [ pollCount |-> newPollCount,
                                     pipelineStage |-> StageOf(newPollCount) ]),
           timers |-> active, pollRef |-> pollRef, elapsedRef |-> elapsedRef,
           fetches |-> 1 ]

\* fetchDemoData(company, false), up to its first await
FetchDemoDataBegins(state) ==
    Spread(state, [ companyName |-> Val(companyParam), status |-> "loading",
                    error |-> None, synthesis |-> None,
                    pipelineStage |-> "connecting" ])

\* the state fetchDemoData sets when it found a report
ReportFound(data, source) ==
    [ companyName |-> Val(companyParam), synthesis |-> data,
      status |-> "success", dataSource |-> source, error |-> None,
      lastFetchedAt |-> Some("now"), pollCount |-> 0,
      maxPolls |-> MAX_POLL_COUNT, isPolling |-> FALSE,
      pipelineStage |-> "complete", elapsedSeconds |-> 0 ]

\* the state fetchDemoData sets when neither source has a report
NoReport ==
    [ companyName |-> Val(companyParam), synthesis |-> None,
      status |-> "no-data", dataSource |-> "none",
      error |-> Some("No report found"),
      lastFetchedAt |-> Some("now"), pollCount |-> 0,
      maxPolls |-> MAX_POLL_COUNT, isPolling |-> FALSE,
      pipelineStage |-> "connecting", elapsedSeconds |-> 0 ]

\* a sequence without its i-th element
Without(s, i) == SubSeq(s, 1, i - 1) \o SubSeq(s, i + 1, Len(s))

InitPoll ==
    /\ companyParam \in {None, Some("acme")}
    /\ demoState = InitialDemoState
    /\ pollIntervalRef = None
    /\ elapsedIntervalRef = None
    /\ timers = {}
    /\ sessions = 0
    /\ pendingPolls = 0
    /\ pendingChecks = <<>>
    /\ fetchAttempts = 0
    /\ isMountedRef = TRUE
    /\ lifecycle = "rendered"
    /\ ItemIdle /\ FilterIdle /\ CompareIdle /\ HealthIdle
    /\ ClassifyIdle /\ PipeIdle

otherVars == <<itemVars, filterVars, compareVars, healthVars,
               classifyVars, pipeVars>>

\* the two effects after the first render
MountEffect ==
    /\ lifecycle = "rendered"
    /\ lifecycle' = "mounted"
    /\ isMountedRef' = TRUE
    /\ IF Has(companyParam)
       THEN /\ demoState' = FetchDemoDataBegins(demoState)
            /\ pendingChecks' = Append(pendingChecks, "supabase")
       ELSE /\ demoState' = Spread(demoState,
                               [ status |-> "idle", companyName |-> "",
                                 synthesis |-> None, error |-> None,
                                 isPolling |-> FALSE ])
            /\ UNCHANGED pendingChecks
    /\ UNCHANGED <<companyParam, pollIntervalRef, elapsedIntervalRef, timers,
                   sessions, pendingPolls, fetchAttempts, otherVars>>

StartPolling ==
    /\ lifecycle = "mounted"
    /\ Has(companyParam)
    /\ sessions < MaxSessions
    /\ pendingPolls < MaxInFlight
    /\ LET k == sessions + 1
           reset == Spread(demoState,
                       [ status |-> "polling", isPolling |-> TRUE,
                         pollCount |-> 0, elapsedSeconds |-> 0,
                         pipelineStage |-> "discovery", error |-> None ])
           first == poll(reset, timers \cup {ElapsedTimer(k), PollTimer(k)},
                         Some(PollTimer(k)), Some(ElapsedTimer(k)),
                         isMountedRef)
       IN /\ sessions' = k
          /\ demoState' = first.state
          /\ timers' = first.timers
          /\ pollIntervalRef' = first.pollRef
          /\ elapsedIntervalRef' = first.elapsedRef
          /\ pendingPolls' = pendingPolls + first.fetches
          /\ fetchAttempts' = first.fetches
    /\ UNCHANGED <<companyParam, pendingChecks, isMountedRef, lifecycle,
                   otherVars>>

\* a poll interval timer fires
PollTick ==
    \E id \in timers :
       /\ IsPollTimer(id)
       /\ pendingPolls < MaxInFlight
       /\ demoState.pollCount < MAX_POLL_COUNT + MaxOverrun
       /\ fetchAttempts < MAX_POLL_COUNT + MaxOverrun
       /\ LET next == poll(demoState, timers, pollIntervalRef,
                           elapsedIntervalRef, isMountedRef)
          IN /\ demoState' = next.state
             /\ timers' = next.timers
             /\ pollIntervalRef' = next.pollRef
             /\ elapsedIntervalRef' = next.elapsedRef
             /\ pendingPolls' = pendingPolls + next.fetches
             /\ fetchAttempts' = fetchAttempts + next.fetches
       /\ UNCHANGED <<companyParam, sessions, pendingChecks, isMountedRef,
                      lifecycle, otherVars>>

\* an elapsed-time interval timer fires
ElapsedTick ==
    \E id \in timers :
       /\ ~IsPollTimer(id)
       /\ demoState.elapsedSeconds < MaxElapsed
       /\ demoState' =
             IF isMountedRef
             THEN Spread(demoState,
                     [elapsedSeconds |-> demoState.elapsedSeconds + 1])
             ELSE demoState
       /\ UNCHANGED <<companyParam, pollIntervalRef, elapsedIntervalRef,
                      timers, sessions, pendingPolls, pendingChecks,
                      fetchAttempts, isMountedRef, lifecycle, otherVars>>

\* poll() after its await: fetchFromSupabase resolved with a report or null
PollFetchDone ==
    /\ pendingPolls > 0
    /\ pendingPolls' = pendingPolls - 1
    /\ \E data \in {None, Some("snapshot report")} :
          IF Has(data) /\ isMountedRef
          THEN LET stopped == stopPolling(demoState, timers, isMountedRef)
               IN /\ timers' = stopped.timers
                  /\ pollIntervalRef' = None
                  /\ elapsedIntervalRef' = None
                  /\ demoState' = Spread(stopped.state,
                        [ synthesis |-> data, status |-> "success",
                          dataSource |-> "supabase", isPolling |-> FALSE,
                          pipelineStage |-> "complete",
                          lastFetchedAt |-> Some("now") ])
          ELSE UNCHANGED <<timers, pollIntervalRef, elapsedIntervalRef,
                           demoState>>
    /\ UNCHANGED <<companyParam, sessions, pendingChecks, fetchAttempts,
                   isMountedRef, lifecycle, otherVars>>

\* the caller stops the polling
StopPolling ==
    /\ lifecycle = "mounted"
    /\ LET stopped == stopPolling(demoState, timers, isMountedRef)
       IN /\ timers' = stopped.timers
          /\ demoState' = stopped.state
    /\ pollIntervalRef' = None
    /\ elapsedIntervalRef' = None
    /\ UNCHANGED <<companyParam, sessions, pendingPolls, pendingChecks,
                   fetchAttempts, isMountedRef, lifecycle, otherVars>>

\* manualCheck (also retry and refetch)
ManualCheck ==
    /\ lifecycle = "mounted"
    /\ Has(companyParam)
    /\ Len(pendingChecks) < MaxManual
    /\ demoState' = FetchDemoDataBegins(demoState)
    /\ pendingChecks' = Append(pendingChecks, "supabase")
    /\ UNCHANGED <<companyParam, pollIntervalRef, elapsedIntervalRef, timers,
                   sessions, pendingPolls, fetchAttempts, isMountedRef,
                   lifecycle, otherVars>>

\* fetchDemoData after Promise.race: a report, or null (none stored, an
\* error, or the timeout won)
CheckSupabaseDone ==
    \E i \in 1..Len(pendingChecks) :
       /\ pendingChecks[i] = "supabase"
       /\ \E data \in {None, Some("snapshot report")} :
             IF Has(data) /\ isMountedRef
             THEN /\ demoState' = ReportFound(data, "supabase")
                  /\ pendingChecks' = Without(pendingChecks, i)
             ELSE /\ pendingChecks' = [pendingChecks EXCEPT ![i] = "config"]
                  /\ UNCHANGED demoState
       /\ UNCHANGED <<companyParam, pollIntervalRef, elapsedIntervalRef,
                      timers, sessions, pendingPolls, fetchAttempts,
                      isMountedRef, lifecycle, otherVars>>

\* fetchDemoData after fetch('/demo-config.json'): a matching config with or
\* without a synthesis of its own, or none
CheckConfigDone ==
    \E i \in 1..Len(pendingChecks) :
       /\ pendingChecks[i] = "config"
       /\ pendingChecks' = Without(pendingChecks, i)
       /\ \E found \in {None, Some("config synthesis"),
                        Some("sampleSynthesisV2")} :
             demoState' =
                IF ~isMountedRef THEN demoState
                ELSE IF Has(found) THEN ReportFound(found, "demo-config")
                ELSE NoReport
       /\ UNCHANGED <<companyParam, pollIntervalRef, elapsedIntervalRef,
                      timers, sessions, pendingPolls, fetchAttempts,
                      isMountedRef, lifecycle, otherVars>>

\* the cleanups of the two effects
Unmount ==
    /\ lifecycle = "mounted"
    /\ lifecycle' = "unmounted"
    /\ isMountedRef' = FALSE
    /\ timers' = stopPolling(demoState, timers, FALSE).timers
    /\ pollIntervalRef' = None
    /\ elapsedIntervalRef' = None
    /\ UNCHANGED <<companyParam, demoState, sessions, pendingPolls,
                   pendingChecks, fetchAttempts, otherVars>>

NextPoll ==
    \/ MountEffect \/ StartPolling \/ PollTick \/ ElapsedTick
    \/ PollFetchDone \/ StopPolling \/ ManualCheck
    \/ CheckSupabaseDone \/ CheckConfigDone \/ Unmount

SpecPoll == InitPoll /\ [][NextPoll]_vars

-----------------------------------------------------------------------------
(* Claims about the differential engine *)

Bit(b) == IF b THEN 1 ELSE 0

BucketNames == {"newIssues", "improvedIssues", "worsenedIssues",
                "resolvedIssues", "stableIssues"}

\* how often a key occurs in one bucket of the comparison
InBucket(changes, name, key) ==
    Cardinality({k \in 1..Len(changes[name]) : KeyOf(changes[name][k]) = key})

KeysIn(areas) == {KeyOf(areas[k]) : k \in 1..Len(areas)}

\* the area a list contributes under a key: the one listed last
LastUnder(areas, key) ==
    LET ks == {k \in 1..Len(areas) : KeyOf(areas[k]) = key}
    IN  areas[CHOOSE k \in ks : \A j \in ks : j <= k]

\* the bucket the thresholds give a key of the current run
ThresholdBucket(cur, prev) ==
    LET freqDelta == cur.frequency - prev.frequency
        impactDelta == cur.impactScore - prev.impactScore
    IN  IF freqDelta < 0 - 2 \/ impactDelta < 0 - 10 THEN "improvedIssues"
        ELSE IF freqDelta > 2 \/ impactDelta > 10 THEN "worsenedIssues"
        ELSE "stableIssues"

\* C1: a current key absent from the snapshot is in newIssues; a key in both
\* is in improvedIssues when freqDelta < -2 or impactDelta < -1, otherwise in
\* worsenedIssues when freqDelta > 2 or impactDelta > 1, otherwise in
\* stableIssues (improved wins when both thresholds are met); a snapshot key
\* absent from the current run is in resolvedIssues.  Of areas listed under
\* the same key, the last one is the one compared.
C1_ClassifiedByThresholds ==
    (Has(comparison) /\ Has(Val(comparison).changes)) =>
        LET changes == Val(Val(comparison).changes)
            cur == current.focusAreas
            prev == Val(previous).focusAreas
        IN  /\ \A key \in KeysIn(cur) :
                 LET want == IF key \notin KeysIn(prev) THEN "newIssues"
                             ELSE ThresholdBucket(LastUnder(cur, key),
                                                  LastUnder(prev, key))
                 IN  /\ InBucket(changes, want, key) >= 1
                     /\ \A k \in 1..Len(changes[want]) :
                          KeyOf(changes[want][k]) = key =>
                             changes[want][k].frequency
                                = LastUnder(cur, key).frequency
            /\ \A key \in KeysIn(prev) \ KeysIn(cur) :
                 InBucket(changes, "resolvedIssues", key) >= 1

\* an area met both thresholds (fewer mentions, higher impact) and was improved
C1_Witness ==
    /\ Has(comparison) /\ Has(Val(comparison).changes)
    /\ \E k \in 1..Len(Val(Val(comparison).changes).improvedIssues) :
         LET e == Val(Val(comparison).changes).improvedIssues[k]
         IN  e.frequencyDelta < 0 - 2 /\ e.impactDelta > 10

\* C2: with a snapshot, every key of the current run or the snapshot is in
\* exactly one of the five buckets, exactly once, and the buckets hold no
\* other key; also when a list names a key more than once.
C2_BucketsDisjoint ==
    (Has(comparison) /\ Has(Val(comparison).changes)) =>
        LET changes == Val(Val(comparison).changes)
            keys == KeysIn(current.focusAreas) \cup KeysIn(Val(previous).focusAreas)
            Total(key) ==
                InBucket(changes, "newIssues", key)
                  + InBucket(changes, "improvedIssues", key)
                  + InBucket(changes, "worsenedIssues", key)
                  + InBucket(changes, "resolvedIssues", key)
                  + InBucket(changes, "stableIssues", key)
        IN  /\ \A key \in keys : Total(key) = 1
            /\ \A name \in BucketNames : KeysIn(changes[name]) \subseteq keys

\* a run that lists one key twice was compared with a snapshot holding it
C2_Witness ==
    /\ Has(comparison) /\ Has(Val(comparison).changes)
    /\ Len(current.focusAreas) = 2
    /\ KeyOf(current.focusAreas[1]) = KeyOf(current.focusAreas[2])
    /\ current.focusAreas[1] # current.focusAreas[2]
    /\ KeyOf(current.focusAreas[1]) \in KeysIn(Val(previous).focusAreas)

\* how many entries of a list satisfy a test
CountOf(l, Test(_)) == Cardinality({k \in 1..Len(l) : Test(l[k])})

\* the health formula before clamping
HealthFormula(h) ==
    LET Critical(e) == e.severityLabel = "Critical"
    IN  50 + 15 * Bit(h.sentimentTrend = Some([direction |-> "improving"]))
           - 15 * Bit(h.sentimentTrend = Some([direction |-> "declining"]))
           + 5 * Len(h.changes.resolvedIssues)
           - 10 * CountOf(h.changes.newIssues, Critical)
           - 3 * Len(h.changes.worsenedIssues)
           + 3 * Len(h.changes.improvedIssues)

\* C3: the health score is the formula clamped to [0,100], for any number of
\* issues and with or without a sentiment trend.
C3_HealthClamped ==
    Has(healthOut) =>
        /\ Val(healthOut) >= 0 /\ Val(healthOut) <= 100
        /\ Val(healthOut) = Max(0, Min(100, HealthFormula(Val(healthIn))))

\* eleven resolved issues and no sentiment trend: 105 is clamped to 100
C3_Witness ==
    /\ Has(healthOut)
    /\ Val(healthIn).sentimentTrend = None
    /\ HealthFormula(Val(healthIn)) > 100
    /\ Val(healthOut) = 100

-----------------------------------------------------------------------------
(* Claims about the clusterer, the signal filter and the scorer *)

\* the category the focus-area contract gives an item: Praise first
ContractCategory(it) ==
    IF it.type = "Praise" THEN "praise"
    ELSE IF it.category = "Feature Request" THEN "feature_request"
    ELSE IF it.category = "Bug" THEN "bug"
    ELSE "usability_friction"

\* C4: every member of a focus area has the area's category as its contract
\* category; in particular a Praise item is always in a 'praise' area,
\* whatever its classification category is.
C4_PraiseTakesPrecedence ==
    Has(focusAreas) =>
        \A k \in 1..Len(Val(focusAreas)) :
            \A m \in 1..Len(Val(focusAreas)[k].items) :
                Val(focusAreas)[k].category
                    = ContractCategory(Val(focusAreas)[k].items[m])

\* how often source id i occurs in a list of items
Occurrences(items, i) == Cardinality({k \in 1..Len(items) : items[k].sourceId = i})

\* C5: highSignal and noise partition the input: the lengths add up and every
\* input item, by source id, is in exactly one bucket exactly once; no other
\* id is in a bucket.
C5_PartitionComplete ==
    Has(signalData) =>
        LET out == Val(signalData).highSignal \o Val(signalData).noise
        IN  /\ Len(Val(signalData).highSignal) + Len(Val(signalData).noise)
                 = Len(analyzedItems)
            /\ \A i \in 1..Len(analyzedItems) : Occurrences(out, i) = 1
            /\ \A k \in 1..Len(out) : out[k].sourceId \in 1..Len(analyzedItems)

\* a list was filtered into a non-empty highSignal and a non-empty noise
C5_Witness ==
    /\ Has(signalData)
    /\ Len(Val(signalData).highSignal) >= 1
    /\ Len(Val(signalData).noise) >= 1

\* C6: both buckets hold scored items (every returned item carries its
\* ImpactData) and a returned report has one rawScores entry per analysed item.
C6_EveryItemCarriesImpact ==
    /\ Has(signalData) =>
          /\ \A k \in 1..Len(Val(signalData).highSignal) :
                Has(Get(Val(signalData).highSignal[k], "impactData"))
          /\ \A k \in 1..Len(Val(signalData).noise) :
                Has(Get(Val(signalData).noise[k], "impactData"))
    /\ (Has(report) /\ Val(report).status = "returned") =>
          \A i \in 1..Len(analyzedItems) :
              Cardinality({k \in 1..Len(Val(report).rawScores) :
                              Val(report).rawScores[k].id = i}) = 1

\* the signal-score formula in exact arithmetic, in twentieths
FormulaSignal20(it) ==
    LET pm == it.problemMetadata
    IN  Max(0, Min(20,
          10 + 4 * Bit(it.type = "Constructive") + 2 * Bit(it.type = "Praise")
             + 2 * Bit(BodyLength(it) > 200) + 2 * Bit(BodyLength(it) > 500)
             + 1 * Bit(EffUpvotes(it) > 10) + 2 * Bit(EffUpvotes(it) > 50)
             + 2 * Bit(EffUpvotes(it) > 100)
             + 2 * Bit(Has(pm))
             + 2 * Bit(Has(pm) /\ Has(Val(pm).impactScore)
                         /\ Val(Val(pm).impactScore) >= 7)
             - 4 * Bit(it.category = "Rant/Opinion")
             - 4 * Bit(BodyLength(it) < 50)))

\* C7: the signal score is in [0,1] and the item is high-signal exactly when
\* the formula's value is at least 0.5.
C7_SignalFormulaDecidesBucket ==
    Has(signalScore) =>
        /\ DblGeq(Val(signalScore), Dbl0) /\ DblGeq(Dbl1, Val(signalScore))
        /\ IsHighSignal(Val(signalScore)) <=> (FormulaSignal20(item) >= 10)

\* the impact score the classifier assigned: where its schema stores it, or
\* flat under problemMetadata
ClassifierImpact(pm) ==
    IF Has(pm.prioritization) THEN Some(Val(pm.prioritization).impactScore)
    ELSE pm.impactScore

\* S of the contract: the classifier's score, 7 only when there is none
ContractSentiment(it) ==
    IF it.type = "Constructive"
    THEN IF Has(it.problemMetadata) /\ Has(ClassifierImpact(Val(it.problemMetadata)))
         THEN Val(ClassifierImpact(Val(it.problemMetadata))) ELSE 7
    ELSE IF it.type = "Praise"
    THEN IF Has(it.delightMetadata) /\ Has(Val(it.delightMetadata).shareability)
         THEN Val(Val(it.delightMetadata).shareability) ELSE 7
    ELSE 5

\* C8: score = round1(0.4*R + 0.3*S + 0.3*V) with S the classifier-assigned
\* impact score (Constructive), the shareability (Praise) or 5.
C8_ImpactFormula ==
    Has(impactData) =>
        Val(impactData).score
            = RoundDiv(ReachNum(item) * AgeInHours(item)
                         + 15 * AgeInHours(item) * ContractSentiment(item)
                         + 15 * VelocityNum(item),
                       5 * AgeInHours(item))

\* C9: the impact score is a number in [0,10].
C9_ScoreInRange ==
    Has(impactData) => (Val(impactData).score >= 0 /\ Val(impactData).score <= 100)

\* C10: scoring an item again after only its upvotes field grew lowers neither
\* the reach sub-score nor the total score.
C10_MonotoneInUpvotes ==
    [][ ( /\ Has(impactData) /\ Has(impactData')
          /\ Has(item.upvotes) /\ Has(item'.upvotes)
          /\ Val(item.upvotes) <= Val(item'.upvotes)
          /\ item' = [item EXCEPT !.upvotes = item'.upvotes] )
        => ( /\ ReachNum(item') >= ReachNum(item)
             /\ Val(impactData').score >= Val(impactData).score ) ]_vars


-----------------------------------------------------------------------------
(* Claims about the clusterer's groups and the filter's order *)

\* the feature area of the grouping key, as the contract words it
ContractFeatureArea(it) ==
    IF Has(it.problemMetadata) /\ Val(it.problemMetadata).featureArea # ""
    THEN Val(it.problemMetadata).featureArea
    ELSE IF Has(it.delightMetadata) /\ Val(it.delightMetadata).ahaMonent # ""
    THEN Val(it.delightMetadata).ahaMonent
    ELSE "General"

ContractKey(it) == <<MapCategory(it), ContractFeatureArea(it)>>

\* the clustered items, in clustering input order
Clustered == Val(signalData).highSignal

\* positions of the clustered items that have the key of an area
MembersOf(area) == {i \in 1..Len(Clustered) : ContractKey(Clustered[i]) = area.id}

RECURSIVE FrequencySum(_)
FrequencySum(areas) ==
    IF areas = <<>> THEN 0 ELSE Head(areas).frequency + FrequencySum(Tail(areas))

\* C11: two clustered items are in the same focus area exactly when they have
\* the same (mapped category, featureArea) pair; an area's id is that pair,
\* its frequency is the number of input items with it, and the frequencies
\* add up to the number of input items.
C11_ClusterKeyStable ==
    Has(focusAreas) =>
        LET areas == Val(focusAreas)
            Holds(k, i) == \E m \in 1..Len(areas[k].items) :
                              areas[k].items[m].sourceId = Clustered[i].sourceId
        IN  /\ \A k \in 1..Len(areas) :
                 /\ areas[k].id = <<areas[k].category, areas[k].title>>
                 /\ areas[k].frequency = Cardinality(MembersOf(areas[k]))
                 /\ \A i \in 1..Len(Clustered) :
                       Holds(k, i) <=> i \in MembersOf(areas[k])
            /\ \A i, j \in 1..Len(Clustered) :
                 (ContractKey(Clustered[i]) = ContractKey(Clustered[j]))
                    <=> \E k \in 1..Len(areas) : Holds(k, i) /\ Holds(k, j)
            /\ \A k, l \in 1..Len(areas) : areas[k].id = areas[l].id => k = l
            /\ FrequencySum(areas) = Len(Clustered)

\* three items were clustered into an area of two and an area of one that
\* shares its category with the first
C11_Witness ==
    /\ Has(focusAreas)
    /\ Len(Clustered) = 3
    /\ \E k, l \in 1..Len(Val(focusAreas)) :
         /\ Val(focusAreas)[k].frequency = 2
         /\ Val(focusAreas)[l].frequency = 1
         /\ Val(focusAreas)[k].category = Val(focusAreas)[l].category

\* the sum of the impact scores of the clustered items at the given positions
RECURSIVE ScoreSum(_)
ScoreSum(positions) ==
    IF positions = {} THEN 0
    ELSE LET i == CHOOSE x \in positions : TRUE
         IN  Clustered[i].impactData.score + ScoreSum(positions \ {i})

\* C12: the focus areas are in order of non-increasing avgImpact, and an
\* area's avgImpact is the mean of the impact scores of its members.
C12_SortedByMeanImpact ==
    Has(focusAreas) =>
        LET areas == Val(focusAreas)
        IN  /\ \A k \in 1..Len(areas) :
                 areas[k].avgImpact.num * Cardinality(MembersOf(areas[k]))
                    = ScoreSum(MembersOf(areas[k])) * areas[k].avgImpact.den
            /\ \A k \in 1..(Len(areas) - 1) :
                 areas[k].avgImpact.num * areas[k + 1].avgImpact.den
                    >= areas[k + 1].avgImpact.num * areas[k].avgImpact.den

\* the area met first in the input has the lower mean and is returned second
C12_Witness ==
    /\ Has(focusAreas)
    /\ Len(Val(focusAreas)) = 2
    /\ Val(focusAreas)[2].id = ContractKey(Clustered[1])
    /\ Val(focusAreas)[2].frequency = 2
    /\ Val(focusAreas)[1].avgImpact.num * Val(focusAreas)[2].avgImpact.den
          > Val(focusAreas)[2].avgImpact.num * Val(focusAreas)[1].avgImpact.den

\* C13: an area's affectedSegments is the set of the user types inferUserType
\* infers for its members, hence not empty for an area with a member.
C13_SegmentsInferred ==
    Has(focusAreas) =>
        \A k \in 1..Len(Val(focusAreas)) :
            LET area == Val(focusAreas)[k]
            IN  {area.affectedSegments[m] : m \in 1..Len(area.affectedSegments)}
                   = {inferUserType(Clustered[i]) : i \in MembersOf(area)}

\* the first clustered item with an area's key
FirstMember(area) ==
    Clustered[CHOOSE i \in MembersOf(area) : \A j \in MembersOf(area) : i <= j]

\* the key quote of the first member that has one, else the empty string
FirstQuote(area) ==
    LET quoting == {i \in MembersOf(area) :
                       Has(Clustered[i].keyQuote) /\ Val(Clustered[i].keyQuote) # ""}
    IN  IF quoting = {} THEN ""
        ELSE Val(Clustered[CHOOSE i \in quoting : \A j \in quoting : i <= j].keyQuote)

\* C14: an area's stakes and scoreRationale are those of the first item
\* appended to it in clustering input order, and its topQuote is the first
\* non-empty key quote among its members in that order (else empty).
C14_FirstMemberRepresents ==
    Has(focusAreas) =>
        \A k \in 1..Len(Val(focusAreas)) :
            LET area == Val(focusAreas)[k]
            IN  /\ area.stakes = FirstMember(area).impactData.stakes
                /\ area.scoreRationale = FirstMember(area).impactData.rationale
                /\ area.topQuote = FirstQuote(area)

\* an area whose last member has other stakes, another rationale and another
\* quote than its first member
C14_Witness ==
    /\ Has(focusAreas)
    /\ \E k \in 1..Len(Val(focusAreas)) :
         LET area == Val(focusAreas)[k]
             n == Len(area.items)
         IN  /\ n >= 2
             /\ Has(area.items[n].keyQuote)
             /\ area.topQuote # ""
             /\ area.topQuote # Val(area.items[n].keyQuote)
             /\ area.items[n].impactData.stakes # area.stakes
             /\ area.items[n].impactData.rationale # area.scoreRationale

\* C15: highSignal is in order of non-increasing impact score, and items of
\* equal impact score keep their input order.
C15_HighSignalSortedStable ==
    Has(signalData) =>
        \A k \in 1..(Len(Clustered) - 1) :
            /\ Clustered[k].impactData.score >= Clustered[k + 1].impactData.score
            /\ Clustered[k].impactData.score = Clustered[k + 1].impactData.score
                  => Clustered[k].sourceId < Clustered[k + 1].sourceId

\* the sort moved a later item to the front and left a tie in input order
C15_Witness ==
    /\ Has(signalData)
    /\ Len(Clustered) = 3
    /\ Clustered[1].sourceId > Clustered[3].sourceId
    /\ Clustered[1].impactData.score > Clustered[3].impactData.score
    /\ \E k \in 1..2 :
         Clustered[k].impactData.score = Clustered[k + 1].impactData.score


-----------------------------------------------------------------------------
(* Claims about the report merge of synthesizeFeedback *)

\* C16: in a returned report the focus-area entry at index i has the id,
\* title, category and frequency of the computed focus area at index i and
\* its avgImpact as impactScore, whatever the narrative entry at i holds.
C16_ComputedFieldsKept ==
    (Has(report) /\ Val(report).status = "returned") =>
        \A i \in 1..Len(Val(report).focusAreas) :
            LET entry == Val(report).focusAreas[i]
                computed == Val(focusAreas)[i]
            IN  /\ entry.id = computed.id
                /\ entry.title = computed.title
                /\ entry.category = computed.category
                /\ entry.frequency = computed.frequency
                /\ entry.impactScore = computed.avgImpact

\* C17: when the narrative answer holds fewer focus areas than were computed,
\* the run returns a report with exactly as many focus areas as the answer.
C17_ExtrasDropped ==
    ( /\ Has(synthesis)
      /\ Val(synthesis).settled = "resolved"
      /\ Has(Val(synthesis).focusAreas)
      /\ Len(Val(Val(synthesis).focusAreas)) < Len(Val(focusAreas)) )
    => ( /\ Val(report).status = "returned"
         /\ Len(Val(report).focusAreas) = Len(Val(Val(synthesis).focusAreas)) )

-----------------------------------------------------------------------------
(* Claims about trend tags and the first run *)

\* C18: the trend and trendDelta that synthesizeFeedback attaches agree with
\* the differential engine: without a snapshot every area is 'new' with
\* delta 0, and with one every area has the tag attachTrendData derives from
\* compareSyntheses on the same focus areas and snapshot.
C18_TrendTagsAgree ==
    (Has(trendTags) /\ Has(attached)) =>
        \A k \in 1..Len(current.focusAreas) :
            /\ Val(trendTags)[k].trend = Val(attached).returned[k].trend
            /\ ~Has(previous) => /\ Val(trendTags)[k].trend = "new"
                                 /\ Val(trendTags)[k].trendDelta = 0

\* C19: without a previous snapshot compareSyntheses returns exactly
\* {isFirstRun: true, changes: null, trends: null}, and getWhatsNew,
\* getWhatsImproved and attachTrendData answer from it without reading the
\* null changes: no items, no improvements, every area 'new' with delta 0.
C19_FirstRunContract ==
    ~Has(previous) =>
        /\ Has(comparison) =>
              Val(comparison) = [isFirstRun |-> TRUE, changes |-> None,
                                 trends |-> None]
        /\ Has(whatsNew) =>
              Val(whatsNew) = Returned([headline |-> "First Analysis Run",
                                        items |-> <<>>])
        /\ Has(whatsImproved) => Val(whatsImproved) = Returned(<<>>)
        /\ Has(attached) =>
              Val(attached) =
                 Returned([k \in 1..Len(current.focusAreas) |->
                             [trend |-> "new", trendDelta |-> 0]
                                @@ current.focusAreas[k]])

\* a first run of two focus areas was compared and read by all three
C19_Witness ==
    /\ ~Has(previous)
    /\ Len(current.focusAreas) = 2
    /\ Has(comparison) /\ Has(whatsNew) /\ Has(whatsImproved) /\ Has(attached)

-----------------------------------------------------------------------------
(* Claims about the batch classifier *)

\* C21: a rejected classification call never aborts classifyFeedbackBatch:
\* the batch returns, its items list has one record per mention in input
\* order, the record of a mention whose call failed is the degraded one
\* (Neutral, N/A, both metadata null, confidence 0, reasoning naming the
\* error), and constructive + praise + neutral equals total.
C21_FailureIsolated ==
    Has(batchResults) =>
        /\ "returned" \in DOMAIN Val(batchResults)
        /\ LET res == Val(batchResults).returned
           IN  /\ Len(res.items) = Len(feedbackItems)
               /\ \A k \in 1..Len(feedbackItems) :
                     /\ res.items[k].sourceId = feedbackItems[k].sourceId
                     /\ "rejected" \in DOMAIN chainAnswers[k] =>
                           /\ res.items[k].type = "Neutral"
                           /\ res.items[k].category = "N/A"
                           /\ res.items[k].problemMetadata = None
                           /\ res.items[k].delightMetadata = None
                           /\ res.items[k].confidence = 0
                           /\ res.items[k].reasoning =
                                 "Classification error: "
                                    \o chainAnswers[k].rejected
               /\ res.stats.total = Len(feedbackItems)
               /\ res.stats.constructive + res.stats.praise
                     + res.stats.neutral = res.stats.total

\* two batches were classified; a call failed in each of them and a call
\* of the first batch resolved to a Constructive record
C21_Witness ==
    /\ Has(batchResults)
    /\ Len(feedbackItems) = BatchSize + 1
    /\ "rejected" \in DOMAIN chainAnswers[2]
    /\ "rejected" \in DOMAIN chainAnswers[BatchSize + 1]
    /\ "resolved" \in DOMAIN chainAnswers[1]
    /\ chainAnswers[1].resolved.type = "Constructive"

-----------------------------------------------------------------------------
(* Claims about runPipeline and scout *)

Stages == {"scraping", "classification", "synthesis", "storage"}

\* how often the run reported a caught failure of a stage
FailuresSaid(stage) ==
    Cardinality({i \in 1..Len(console) : console[i] = Said(stage, "failed")})

\* how often the errors list names a step
ErrorsNaming(step) ==
    LET errors == Val(pipelineResults).errors
    IN  Cardinality({i \in 1..Len(errors) : errors[i].step = step})

\* C22: in runPipeline and scout every failed collaborator call (company
\* lookup, scrape-job creation or update, scraping, classification,
\* synthesis, storage) is appended to errors with its step named and the
\* function still returns the results: none is swallowed, none escapes.
C22_EveryFailureRecorded ==
    Has(pipelineResults) =>
        /\ Has(outcome) => "returned" \in DOMAIN Val(outcome)
        /\ \A stage \in Stages : ErrorsNaming(stage) = FailuresSaid(stage)
        /\ Len(Val(pipelineResults).errors)
              = FailuresSaid("company")
                + FailuresSaid("scraping") + FailuresSaid("classification")
                + FailuresSaid("synthesis") + FailuresSaid("storage")

\* the scraped post a classified item was made from
PostOf(classifiedItem) ==
    LET mentions == Val(Val(pipelineResults).scrapeResults).mentions
    IN  mentions[CHOOSE k \in 1..Len(mentions) :
                    mentions[k].sourceId = classifiedItem.sourceId]

\* C23: every item runPipeline hands to synthesizeFeedback carries the
\* upvotes, the comment count, the body text and the creation timestamp of
\* its scraped post in the fields the scorer and the signal filter read, so
\* reach is computed from the post's real counts.
C23_ItemsCarryPostData ==
    (/\ Has(pipelineResults)
     /\ \E i \in 1..Len(console) : console[i] = Said("synthesis", "started"))
    => LET items == Val(Val(pipelineResults).classificationResults).items
       IN  \A k \in 1..Len(items) :
              LET read == AsAnalyzed(items[k])
                  post == PostOf(items[k])
              IN  /\ read.upvotes = Some(post.upvotes)
                  /\ read.numComments = Some(post.numComments)
                  /\ read.bodyLength = Some(TextLength(post.body))
                  /\ read.createdAt = Some(post.createdAt)
                  /\ ReachNum(read)
                        = Min(200, post.upvotes + post.numComments * 2)

\* C25: saveSnapshot always terminates: whatever the database answers, a
\* call that was started eventually returns a snapshot or null, or throws.
C25_SaveSnapshotTerminates_P == (pc = "save") ~> (pc = "done")

StageRank(stage) ==
    CASE stage = "scraping" -> 1 [] stage = "classification" -> 2
      [] stage = "synthesis" -> 3 [] stage = "storage" -> 4 [] OTHER -> 0

\* the positions at which the run entered (or passed over) a stage
StageEntries ==
    {i \in 1..Len(console) : console[i].event \in {"started", "skipped"}}

Started(stage) ==
    \E i \in 1..Len(console) : console[i] = Said(stage, "started")

Skipped(stage) ==
    \E i \in 1..Len(console) : console[i] = Said(stage, "skipped")

\* scrape, classify, synthesize, store in this order, each at most once
C26_InOrderOnce ==
    \A i, j \in StageEntries :
        i < j => StageRank(console[i].stage) < StageRank(console[j].stage)

\* each stage is attempted only on what the claim names
C26_Guards ==
    LET r == Val(pipelineResults)
    IN  /\ Started("classification") =>
              /\ Has(r.scrapeResults)
              /\ Len(Val(r.scrapeResults).mentions) >= 1
        /\ Started("synthesis") =>
              /\ Has(r.classificationResults)
              /\ Len(Val(r.classificationResults).items) >= 5
        /\ Started("storage") => Has(r.classificationResults)

C26_SkippedLeavesNull ==
    LET r == Val(pipelineResults)
    IN  /\ Skipped("classification") =>
              r.classificationResults = None /\ r.executiveSummary = None
        /\ Skipped("synthesis") => r.strategicSynthesis = None

ScrapeItselfFailed ==
    LET errors == Val(pipelineResults).errors
    IN  \E i \in 1..Len(errors) :
           /\ errors[i].step = "scraping"
           /\ errors[i].error \in {"createScrapeJob failed", "smartScrape failed"}

-----------------------------------------------------------------------------
(* Claims about the snapshot and its readers *)

-----------------------------------------------------------------------------
(* Claims about the report of many focus areas *)

\* the `${category}:${title}` keys of a list of focus areas
AreaKeys(areas) ==
    { <<areas[k].category, areas[k].title>> : k \in 1..Len(areas) }

-----------------------------------------------------------------------------
(* Claims about the demo polling hook *)

PollTimers == { id \in timers : IsPollTimer(id) }
ElapsedTimers == { id \in timers : ~IsPollTimer(id) }

\* C28: a polling session started by startPolling issues at most
\* MAX_POLL_COUNT fetches and pollCount never exceeds maxPolls; the session
\* ends with status 'timeout' or, when a fetch returned a report, with status
\* 'success', in both cases with isPolling false and no interval timer left.
C28_SessionBounded ==
    lifecycle = "mounted" =>
       /\ fetchAttempts <= MAX_POLL_COUNT
       /\ demoState.pollCount <= demoState.maxPolls
       /\ demoState.status = "timeout" =>
             ~demoState.isPolling /\ timers = {}
       /\ (demoState.status = "success" /\ demoState.dataSource = "supabase") =>
             ~demoState.isPolling /\ timers = {}

\* at most one interval timer of each kind is active
C29_AtMostOneEach ==
    Cardinality(PollTimers) <= 1 /\ Cardinality(ElapsedTimers) <= 1

\* C29: under any interleaving of startPolling, stopPolling, manualCheck,
\* timer ticks and fetch completions, at most one poll timer and one
\* elapsed-time timer are active, after stopPolling none is active, and once
\* status is 'success' no timer tick changes status to 'timeout' or
\* increments pollCount.
C29_TimersUnderControl ==
    /\ []C29_AtMostOneEach
    /\ [][StopPolling => timers' = {}]_vars
    /\ [][(demoState.status = "success" /\ PollTick) =>
             /\ demoState'.status # "timeout"
             /\ demoState'.pollCount # demoState.pollCount + 1]_vars

\* polling has stopped: at the poll limit, or by a call of stopPolling
PollingStopped ==
    /\ lifecycle = "mounted"
    /\ \/ demoState.status = "timeout"
       \/ demoState.status = "polling" /\ ~demoState.isPolling

\* C30: once polling has stopped, at the poll limit or by a call of
\* stopPolling, the result of a poll fetch still in flight is ignored: it
\* changes none of status, synthesis and dataSource.
C30_LateResultIgnored ==
    [][(PollingStopped /\ PollFetchDone) =>
          /\ demoState'.status = demoState.status
          /\ demoState'.synthesis = demoState.synthesis
          /\ demoState'.dataSource = demoState.dataSource]_vars

=============================================================================
